---- MODULE Spec2Model ----
(***************************************************************************)
(* A model of the S3 attachment uploader plugin: the upload orchestrator   *)
(* (uploadAllAttachments, uploadCurrentFileAttachments,                    *)
(* uploadAndReplaceAttachment, replaceAttachmentReferences), the remote    *)
(* inventory scanner and reference collector (getAllS3Files,               *)
(* findAllObsidianReferences) and the cleanup modal (CleanupModal).        *)
(*                                                                         *)
(* Text is a sequence of one-character strings.  The regular expressions   *)
(* of the source are modelled by matchers that compute what the JavaScript *)
(* engine computes for them (leftmost match, greedy runs, backtracking).   *)
(***************************************************************************)
EXTENDS Integers, Sequences, FiniteSets, TLC

(***************************************************************************)
(* Strings                                                                 *)
(***************************************************************************)

\* The characters the model's texts use, in ASCII order (S3 lists keys in
\* the binary order of their characters).
Ascii ==
    << " ", "!", "#", "(", ")", ",", "-", ".", "/",
       "0", "1", "2", "3", "4", "5", "6", "7", "8", "9", ":", "?",
       "D", "H", "M", "P", "Y", "[", "]", "_",
       "a", "b", "c", "d", "f", "g", "h", "m", "n", "p", "s", "t", "x" >>

Code(c) == CHOOSE i \in 1..Len(Ascii) : Ascii[i] = c

Digit == << "0", "1", "2", "3", "4", "5", "6", "7", "8", "9" >>

\* String(n) for a natural number n.
RECURSIVE toString(_)
toString(n) ==
    IF n < 10 THEN << Digit[n + 1] >>
    ELSE toString(n \div 10) \o << Digit[(n % 10) + 1] >>

\* String(n).padStart(2, '0')
pad2(n) == IF n < 10 THEN << "0" >> \o toString(n) ELSE toString(n)

\* c.toLowerCase(), for the characters of Ascii.
lowerChar(c) ==
    CASE c = "D" -> "d" [] c = "H" -> "h" [] c = "M" -> "m"
      [] c = "P" -> "p" [] c = "Y" -> "y" [] OTHER -> c

toLowerCase(s) == [i \in 1..Len(s) |-> lowerChar(s[i])]

\* \s of the source's regular expressions.
IsSpace(c) == c \in {" "}

Range(s) == { s[i] : i \in 1..Len(s) }

\* s.startsWith(p), and the same test at position i (1-based).
StartsWithAt(s, p, i) ==
    /\ i >= 1
    /\ i + Len(p) - 1 <= Len(s)
    /\ SubSeq(s, i, i + Len(p) - 1) = p

startsWith(s, p) == StartsWithAt(s, p, 1)

endsWith(s, p) ==
    /\ Len(p) <= Len(s)
    /\ SubSeq(s, Len(s) - Len(p) + 1, Len(s)) = p

\* s.indexOf(p) searched from position i, 1-based; 0 when p does not occur.
indexOfFrom(s, p, i) ==
    LET hits == { j \in i..(Len(s) + 1) : StartsWithAt(s, p, j) }
    IN  IF hits = {} THEN 0
        ELSE CHOOSE j \in hits : \A k \in hits : j <= k

indexOf(s, p) == indexOfFrom(s, p, 1)

includes(s, p) == indexOf(s, p) # 0

\* The first position >= i of s holding a character of the set cs, or 0.
FirstOf(s, cs, i) ==
    LET hits == { j \in i..Len(s) : s[j] \in cs }
    IN  IF hits = {} THEN 0
        ELSE CHOOSE j \in hits : \A k \in hits : j <= k

\* s.substring(n) with n counted from 0.
substring(s, n) == SubSeq(s, n + 1, Len(s))

\* s.split(c)[0]
splitFirst(s, c) ==
    LET j == FirstOf(s, {c}, 1)
    IN  IF j = 0 THEN s ELSE SubSeq(s, 1, j - 1)

\* s.split(c).pop()
splitLast(s, c) ==
    LET hits == { j \in 1..Len(s) : s[j] = c }
    IN  IF hits = {} THEN s
        ELSE SubSeq(s, (CHOOSE j \in hits : \A k \in hits : j >= k) + 1, Len(s))

\* Lexicographic order of two keys by character code.
RECURSIVE KeyLess(_, _)
KeyLess(a, b) ==
    IF b = << >> THEN FALSE
    ELSE IF a = << >> THEN TRUE
    ELSE IF Code(Head(a)) # Code(Head(b)) THEN Code(Head(a)) < Code(Head(b))
    ELSE KeyLess(Tail(a), Tail(b))

\* The keys of a set as the sequence in ascending order.
RECURSIVE SortKeys(_)
SortKeys(S) ==
    IF S = {} THEN << >>
    ELSE LET m == CHOOSE x \in S : \A y \in S \ {x} : KeyLess(x, y)
         IN  << m >> \o SortKeys(S \ {m})

\* name.replace(/\s+/g, '-'): every maximal run of whitespace becomes one hyphen.
RECURSIVE SanitizeFrom(_, _)
SanitizeFrom(s, i) ==
    IF i > Len(s) THEN << >>
    ELSE IF IsSpace(s[i])
         THEN IF i > 1 /\ IsSpace(s[i - 1])
              THEN SanitizeFrom(s, i + 1)
              ELSE << "-" >> \o SanitizeFrom(s, i + 1)
         ELSE << s[i] >> \o SanitizeFrom(s, i + 1)

sanitizeFileName(name) == SanitizeFrom(name, 1)

(***************************************************************************)
(* Regular expressions                                                     *)
(*                                                                         *)
(* A matcher gives, for a text s and a start position i, the match of its  *)
(* pattern that starts at i: [ok, end, cap], end the position of the last  *)
(* matched character and cap a capture group.                              *)
(***************************************************************************)

NoMatch == [ok |-> FALSE, end |-> 0, cap |-> << >>]

\* /!\[[^\]]*\]\(([^)]+)\)/ when bang, /\[[^\]]*\]\(([^)]+)\)/ otherwise.
\* cap is group 1, the link target.
InlineAt(s, i, bang) ==
    LET b == IF bang THEN i + 1 ELSE i      \* position of "["
        j == FirstOf(s, {"]"}, b + 1)       \* [^\]]* runs up to the first "]"
        k == FirstOf(s, {")"}, j + 2)       \* [^)]+ runs up to the first ")"
    IN  IF /\ (bang => StartsWithAt(s, << "!" >>, i))
           /\ StartsWithAt(s, << "[" >>, b)
           /\ j # 0
           /\ StartsWithAt(s, << "(" >>, j + 1)
           /\ k # 0
           /\ k > j + 2
        THEN [ok |-> TRUE, end |-> k, cap |-> SubSeq(s, j + 2, k - 1)]
        ELSE NoMatch

\* /\[\[([^\]]+)\]\]/ ; cap is group 1.
WikiAt(s, i) ==
    LET j == FirstOf(s, {"]"}, i + 2)
    IN  IF /\ StartsWithAt(s, << "[", "[" >>, i)
           /\ j # 0
           /\ j > i + 2
           /\ StartsWithAt(s, << "]" >>, j + 1)
        THEN [ok |-> TRUE, end |-> j + 1, cap |-> SubSeq(s, i + 2, j - 1)]
        ELSE NoMatch

\* new RegExp('(' + escapeRegex(base) + '[^\\s\\)\\]\\>\\<\\"\']+)'): the
\* literal base followed by a greedy run, at least one long, of characters
\* that are not whitespace and none of ) ] > < " '.
RawStop == { ")", "]", ">", "<", "\"", "'" }

RawAt(s, i, base) ==
    LET r == i + Len(base)                  \* first character of the run
        stops == { j \in r..Len(s) : IsSpace(s[j]) \/ s[j] \in RawStop }
        e == IF stops = {} THEN Len(s)
             ELSE (CHOOSE j \in stops : \A k \in stops : j <= k) - 1
    IN  IF StartsWithAt(s, base, i) /\ e >= r
        THEN [ok |-> TRUE, end |-> e, cap |-> SubSeq(s, i, e)]
        ELSE NoMatch

\* new RegExp(`!\\[([^\\]]*)\\]\\(([^)]*${escapeRegex(name)}[^)]*)\\)`):
\* cap is group 1, the alt text.  The first [^)]* is greedy, so the engine
\* takes the last place p of the name that a run of non-")" reaches and from
\* which a run of non-")" leads to a ")".
MdNameAt(s, i, name) ==
    LET j == FirstOf(s, {"]"}, i + 2)
        f == FirstOf(s, {")"}, j + 2)
        lim == IF f = 0 THEN Len(s) + 1 ELSE f
        ps == { p \in (j + 2)..lim :
                  /\ StartsWithAt(s, name, p)
                  /\ FirstOf(s, {")"}, p + Len(name)) # 0 }
        p == CHOOSE q \in ps : \A r \in ps : q >= r
    IN  IF /\ StartsWithAt(s, << "!", "[" >>, i)
           /\ j # 0
           /\ StartsWithAt(s, << "(" >>, j + 1)
           /\ ps # {}
        THEN [ok |-> TRUE, end |-> FirstOf(s, {")"}, p + Len(name)),
              cap |-> SubSeq(s, i + 2, j - 1)]
        ELSE NoMatch

\* new RegExp(`!?\\[\\[([^\\]]*${escapeRegex(name)}[^\\]]*)\\]\\]`) when
\* bang, and the legacy pattern without the leading !? otherwise.
WikiNameAt(s, i, name, bang) ==
    LET b == IF bang /\ StartsWithAt(s, << "!" >>, i) THEN i + 1 ELSE i
        f == FirstOf(s, {"]"}, b + 2)
        lim == IF f = 0 THEN Len(s) + 1 ELSE f
        Tail1(p) == FirstOf(s, {"]"}, p + Len(name))
        ps == { p \in (b + 2)..lim :
                  /\ StartsWithAt(s, name, p)
                  /\ Tail1(p) # 0
                  /\ StartsWithAt(s, << "]", "]" >>, Tail1(p)) }
        p == CHOOSE q \in ps : \A r \in ps : q >= r
    IN  IF StartsWithAt(s, << "[", "[" >>, b) /\ ps # {}
        THEN [ok |-> TRUE, end |-> Tail1(p) + 1, cap |-> << >>]
        ELSE NoMatch

\* The patterns, as data: [kind, name, base].
Pat(kind) == [kind |-> kind, name |-> << >>, base |-> << >>]
PatName(kind, name) == [kind |-> kind, name |-> name, base |-> << >>]
PatRaw(base) == [kind |-> "raw", name |-> << >>, base |-> base]

MatchAt(pat, s, i) ==
    CASE pat.kind = "image"    -> InlineAt(s, i, TRUE)
      [] pat.kind = "link"     -> InlineAt(s, i, FALSE)
      [] pat.kind = "wiki"     -> WikiAt(s, i)
      [] pat.kind = "raw"      -> RawAt(s, i, pat.base)
      [] pat.kind = "mdName"   -> MdNameAt(s, i, pat.name)
      [] pat.kind = "wikiName" -> WikiNameAt(s, i, pat.name, TRUE)
      [] pat.kind = "wikiNameLegacy" -> WikiNameAt(s, i, pat.name, FALSE)

\* All matches of a global pattern in s, left to right, each search resuming
\* after the previous match (exec with lastIndex, matchAll, replace):
\* a sequence of [start, end, cap].
RECURSIVE MatchesFrom(_, _, _)
MatchesFrom(pat, s, i) ==
    LET hits == { j \in i..Len(s) : MatchAt(pat, s, j).ok }
    IN  IF hits = {} THEN << >>
        ELSE CHOOSE r \in
               { << [start |-> j, end |-> m.end, cap |-> m.cap] >>
                 \o MatchesFrom(pat, s, m.end + 1) :
                   << j, m >> \in { << x, MatchAt(pat, s, x) >> :
                                     x \in { y \in hits : \A z \in hits : y <= z } } }
               : TRUE

Matches(pat, s) == MatchesFrom(pat, s, 1)

\* regex.test(s)
test(pat, s) == Matches(pat, s) # << >>

Captures(pat, s) == [k \in 1..Len(Matches(pat, s)) |-> Matches(pat, s)[k].cap]

(***************************************************************************)
(* Bounds                                                                  *)
(***************************************************************************)

\* The largest retryCount the settings of a run hold.
MaxRetry == 2

\* How many times the operator edits a credential or the bucket name.
MaxEdits == 1

\* How many cleanup runs one modal starts.
MaxRuns == 1

\* How many requests to the remote store and document reads fail in a cleanup.
MaxCleanupFaults == 1

\* How many awaited calls (remote store, document store) fail in one run.
MaxFaults == 2

\* The most keys the remote store returns in one list page.
PageSize == 2

\* The most milliseconds a remote copy takes.
MaxLatency == 1

(***************************************************************************)
(* State                                                                   *)
(***************************************************************************)

VARIABLES
    settings,   \* S3UploaderSettings
    s3,         \* whether this.s3 holds a client
    now,        \* the clock, in milliseconds
    files,      \* the vault's non-markdown files: the sequence of their paths
    docs,       \* the vault's markdown documents: document -> text
    active,     \* the active document, or 0
    store,      \* the remote bucket: the set of its keys
    up,         \* the upload command in progress
    modal,      \* the CleanupModal
    tab,        \* the settings tab: its handlers in progress
    faults,     \* how many awaited calls have failed
    events      \* what has happened: requests, notices, returns, throws

vars == << settings, s3, now, files, docs, active, store, up, modal, tab, faults, events >>

\* One entry of events: what happened (e), to which attachment or key (a),
\* two numbers (n: the attempt or a count; m: a second count), a text (x: a
\* key, a URL) and an error (err).
Ev(e, a, n, m, x, err) == [e |-> e, a |-> a, n |-> n, m |-> m, x |-> x, err |-> err]

Happened(e) == { i \in 1..Len(events) : events[i].e = e }

\* Whether the command was answered with the notice to configure S3.
Noticed(cmd) == \E i \in Happened("noticeConfigure") : events[i].err = cmd

(***************************************************************************)
(* Texts of the model                                                      *)
(***************************************************************************)

BaseUrl == << "h", "t", "t", "p", ":", "/", "/", "s" >>
Bucket == << "b" >>
Folder == << "f" >>
TrashPath == << ".", "t" >>
Extensions == << "p", "n", "g", ",", " ", "p" >>     \* 'png, p'
Slash == << "/" >>

DEFAULT_SETTINGS ==
    [ accessKeyId |-> << >>, secretAccessKey |-> << >>, bucketName |-> << >>,
      baseUrl |-> << >>, folderPath |-> Folder, allowedExtensions |-> Extensions,
      organizeByDate |-> FALSE, dateFormat |-> << "s", "s" >>,
      usePathStyle |-> FALSE, retryCount |-> 3,
      trashPath |-> TrashPath, moveToTrash |-> TRUE ]

\* Settings an operator has filled in.
Configured(pathStyle, trash, byDate, retries) ==
    [ DEFAULT_SETTINGS EXCEPT
        !.accessKeyId = << "a" >>, !.secretAccessKey = << "s" >>,
        !.bucketName = Bucket, !.baseUrl = BaseUrl,
        !.usePathStyle = pathStyle, !.moveToTrash = trash,
        !.organizeByDate = byDate, !.retryCount = retries ]

(***************************************************************************)
(* Key mapper                                                              *)
(***************************************************************************)

\* s.replace(/tok/g, val) for a literal token.
RECURSIVE ReplaceLitFrom(_, _, _, _)
ReplaceLitFrom(s, tok, val, i) ==
    IF i > Len(s) THEN << >>
    ELSE IF StartsWithAt(s, tok, i)
         THEN val \o ReplaceLitFrom(s, tok, val, i + Len(tok))
         ELSE << s[i] >> \o ReplaceLitFrom(s, tok, val, i + 1)

replaceLit(s, tok, val) == ReplaceLitFrom(s, tok, val, 1)

\* The local date and time of the clock value t: the model's clock starts at
\* 2021-03-04 05:06:00.000.
DateOf(t) ==
    [ year |-> 2021, month |-> 3, day |-> 4, hour |-> 5, minute |-> 6,
      second |-> (t \div 1000) % 60 ]

formatDate(date, format) ==
    LET f1 == replaceLit(format, << "Y", "Y", "Y", "Y" >>, toString(date.year))
        f2 == replaceLit(f1, << "Y", "Y" >>, pad2(date.year % 100))
        f3 == replaceLit(f2, << "M", "M" >>, pad2(date.month))
        f4 == replaceLit(f3, << "D", "D" >>, pad2(date.day))
        f5 == replaceLit(f4, << "H", "H" >>, pad2(date.hour))
        f6 == replaceLit(f5, << "m", "m" >>, pad2(date.minute))
    IN  replaceLit(f6, << "s", "s" >>, pad2(date.second))

\* Mutant of computeKey: folderPath and a '/' are put in front whether or not
\* folderPath is empty.
computeKeyAlwaysFolder(name, S, t) ==
    IF S.organizeByDate
    THEN S.folderPath \o Slash \o formatDate(DateOf(t), S.dateFormat) \o Slash
         \o sanitizeFileName(name)
    ELSE S.folderPath \o Slash \o sanitizeFileName(name)

\* The remote key of a file name under settings S at time t.
computeKey(name, S, t) ==
    LET sanitizedFileName == sanitizeFileName(name)
        datePath == formatDate(DateOf(t), S.dateFormat)
    IN  IF S.organizeByDate
        THEN IF S.folderPath # << >>
             THEN S.folderPath \o Slash \o datePath \o Slash \o sanitizedFileName
             ELSE datePath \o Slash \o sanitizedFileName
        ELSE IF S.folderPath # << >>
             THEN S.folderPath \o Slash \o sanitizedFileName
             ELSE sanitizedFileName

\* The URL written into documents for a key.
computeUrl(key, S) ==
    IF S.usePathStyle
    THEN S.baseUrl \o Slash \o S.bucketName \o Slash \o key
    ELSE S.baseUrl \o Slash \o key

(***************************************************************************)
(* Link extractor                                                          *)
(***************************************************************************)

\* s.split(c)
RECURSIVE splitAll(_, _)
splitAll(s, c) ==
    LET j == FirstOf(s, {c}, 1)
    IN  IF j = 0 THEN << s >>
        ELSE << SubSeq(s, 1, j - 1) >> \o splitAll(SubSeq(s, j + 1, Len(s)), c)

\* s.trim()
RECURSIVE trim(_)
trim(s) ==
    IF s # << >> /\ IsSpace(Head(s)) THEN trim(Tail(s))
    ELSE IF s # << >> /\ IsSpace(s[Len(s)]) THEN trim(SubSeq(s, 1, Len(s) - 1))
    ELSE s

\* allowedExtensions.split(',').map(trim, lower case).filter(non-empty)
allowedExts(S) ==
    { toLowerCase(trim(e)) : e \in Range(splitAll(S.allowedExtensions, ",")) } \ { << >> }

\* TFile.name and TFile.extension of a vault path.
fileName(path) == splitLast(path, "/")

fileExtension(path) ==
    IF "." \in Range(fileName(path)) THEN splitLast(fileName(path), ".") ELSE << >>

isAttachment(path, S) == toLowerCase(fileExtension(path)) \in allowedExts(S)

isAttachmentPath(path, S) ==
    LET ext == toLowerCase(splitLast(path, "."))
    IN  ext # << >> /\ ext \in allowedExts(S)

Http == << "h", "t", "t", "p" >>

extractAttachmentPaths(content, S) ==
    LET Local(path) == ~startsWith(path, Http)
        Allowed(path) == isAttachmentPath(path, S)
    IN  SelectSeq(Captures(Pat("image"), content), Local)
        \o SelectSeq(Captures(Pat("wiki"), content), Allowed)

(***************************************************************************)
(* Reference rewriter                                                      *)
(***************************************************************************)

\* content.replace(regex, replacement) for the matches ms of a global regex:
\* the text between the matches is kept, each match becomes ![alt](url), alt
\* being the match's capture.
RECURSIVE Splice(_, _, _, _, _)
Splice(s, ms, k, pos, url) ==
    IF k > Len(ms) THEN SubSeq(s, pos, Len(s))
    ELSE SubSeq(s, pos, ms[k].start - 1)
         \o << "!", "[" >> \o ms[k].cap \o << "]", "(" >> \o url \o << ")" >>
         \o Splice(s, ms, k + 1, ms[k].end + 1, url)

\* Mutant of replaceAllMatches: the pattern without its g flag.
replaceFirstMatch(pat, s, url) ==
    CHOOSE r \in { Splice(s, SubSeq(ms, 1, 1), 1, 1, url) : ms \in { Matches(pat, s) } } : TRUE

replaceAllMatches(pat, s, url) ==
    CHOOSE r \in { Splice(s, ms, 1, 1, url) : ms \in { Matches(pat, s) } } : TRUE

\* Mutant of wikiRegex: the pattern without its leading '!?'.
wikiRegexNoBang(name) == PatName("wikiNameLegacy", name)

\* The pattern of the double-bracket pass.
wikiRegex(name) == PatName("wikiName", name)

\* The pattern of the inline pass.
markdownRegex(name) == PatName("mdName", name)

\* Mutant of rewritePass: modified is set whether or not the pattern matched.
rewritePassAlwaysModified(pat, w, url) ==
    [content |-> replaceAllMatches(pat, w.content, url), modified |-> TRUE]

\* One pass: [content, modified] after the pattern's test and replace.
rewritePass(pat, w, url) ==
    IF test(pat, w.content)
    THEN [content |-> replaceAllMatches(pat, w.content, url), modified |-> TRUE]
    ELSE w

\* The body of replaceAttachmentReferences for one document: the text to
\* write and whether any pass matched.
rewriteContent(content, name, url) ==
    CHOOSE r \in
      { rewritePass(wikiRegex(name), w1, url) :
          w1 \in { rewritePass(markdownRegex(name),
                               [content |-> content, modified |-> FALSE], url) } }
      : TRUE

\* The documents replaceAttachmentReferences goes through.
RECURSIVE SeqOfInts(_, _)
SeqOfInts(lo, hi) == IF lo > hi THEN << >> ELSE << lo >> \o SeqOfInts(lo + 1, hi)

getMarkdownFiles == SeqOfInts(1, Len(docs))

rewriteTargets(targetFile) ==
    IF targetFile # 0 THEN << targetFile >> ELSE getMarkdownFiles

(***************************************************************************)
(* Upload orchestrator                                                     *)
(*                                                                         *)
(* up.pc is the await at which the command is suspended: "activeRead"      *)
(* (vault.read of the active document), "readBinary", "put" (s3.send of    *)
(* the PutObjectCommand), "docRead" and "docModify" (vault.read and        *)
(* vault.modify inside replaceAttachmentReferences), "unlink"              *)
(* (vault.delete), "backoff" (the setTimeout); "next" is the head of the   *)
(* batch loop; "done" and "crashed" end the command, the latter by an      *)
(* error no handler caught.                                                *)
(***************************************************************************)

UpIdle ==
    [ pc |-> "idle", mode |-> "none", items |-> << >>, idx |-> 0, target |-> 0,
      att |-> << >>, maxRetries |-> 0, attempt |-> 0, lastError |-> "null",
      key |-> << >>, url |-> << >>, rdocs |-> << >>, di |-> 0,
      newContent |-> << >>, successCount |-> 0, failCount |-> 0 ]

NoText == << >>

\* An awaited call of the remote store or the document store may fail, while
\* the run has faults left.
Outcomes == IF faults < MaxFaults THEN { TRUE, FALSE } ELSE { TRUE }

Charge(ok) == faults' = IF ok THEN faults ELSE faults + 1

\* The paths getFiles() returns that are attachments.
attachmentsOf(fs, S) ==
    LET Is(path) == isAttachment(path, S) IN SelectSeq(fs, Is)

\* What uploadAllAttachments does when uploadAndReplaceAttachment throws: it
\* has no handler, so the command ends with the error.
allOnThrow(u) == [u EXCEPT !.pc = "crashed"]

\* What uploadCurrentFileAttachments does when it throws: failCount++ and on.
currentOnThrow(u) == [u EXCEPT !.pc = "next", !.failCount = @ + 1]

\* uploadAndReplaceAttachment has used up its attempts: the notice, the throw,
\* and the caller's handling of it.
Exhausted(u, ev) ==
    LET message == IF u.lastError = "null" THEN "Unknown error" ELSE u.lastError
        ev2 == ev \o << Ev("noticeFailed", u.att, u.maxRetries, 0, NoText, message),
                        Ev("throw", u.att, u.attempt, 0, NoText, u.lastError) >>
    IN  [ u |-> IF u.mode = "all" THEN allOnThrow(u) ELSE currentOnThrow(u),
          ev |-> ev2 ]

\* Mutant of backoffDelay: the attempts are counted from zero.
backoffDelayFromZero(attempt) == 1000 * (attempt - 1)

\* The wait before the next attempt, in milliseconds.
backoffDelay(attempt) == 1000 * attempt

\* Mutant of AttemptFailed: the retry test is off by one.
AttemptFailedOffByOne(u, ev, err) ==
    LET u1 == [u EXCEPT !.lastError = err]
        ev1 == ev \o << Ev("attemptFailed", u.att, u.attempt, 0, NoText, err) >>
    IN  IF u.attempt + 1 < u.maxRetries
        THEN [u |-> [u1 EXCEPT !.pc = "backoff"], ev |-> ev1]
        ELSE Exhausted(u1, ev1)

\* The catch block of the attempt loop.
AttemptFailed(u, ev, err) ==
    LET u1 == [u EXCEPT !.lastError = err]
        ev1 == ev \o << Ev("attemptFailed", u.att, u.attempt, 0, NoText, err) >>
    IN  IF u.attempt < u.maxRetries
        THEN [u |-> [u1 EXCEPT !.pc = "backoff"], ev |-> ev1]
        ELSE Exhausted(u1, ev1)

\* An attempt begins: readBinary is awaited.
BeginAttempt(u, ev, n) ==
    [ u |-> [u EXCEPT !.pc = "readBinary", !.attempt = n],
      ev |-> ev \o << Ev("attempt", u.att, n, 0, NoText, "") >> ]

\* uploadAndReplaceAttachment(att, target) is called.
CallUpload(u, ev, att) ==
    LET u1 == [u EXCEPT !.att = att, !.maxRetries = settings.retryCount,
                        !.attempt = 0, !.lastError = "null"]
        ev1 == ev \o << Ev("call", att, 0, 0, NoText, "") >>
    IN  IF 1 <= u1.maxRetries THEN BeginAttempt(u1, ev1, 1) ELSE Exhausted(u1, ev1)

\* Mutant of Returned: the return after the local delete is missing, so the
\* attempt loop goes on.
ReturnMissing(u, ev) ==
    IF u.attempt < u.maxRetries
    THEN BeginAttempt(u, ev, u.attempt + 1)
    ELSE Exhausted(u, ev)

\* uploadAndReplaceAttachment returned: the caller counts it and goes on.
Returned(u, ev) ==
    [ u |-> [u EXCEPT !.pc = "next",
                      !.successCount = IF u.mode = "current" THEN @ + 1 ELSE @],
      ev |-> ev \o << Ev("return", u.att, u.attempt, 0, NoText, "") >> ]

\* The notice that ends a batch.
batchEndNotice(u) ==
    IF u.mode = "all" THEN Ev("noticeAllUploaded", NoText, 0, 0, NoText, "")
    ELSE IF u.failCount = 0
         THEN Ev("noticeSuccess", NoText, u.successCount, 0, NoText, "")
         ELSE Ev("noticePartial", NoText, u.successCount, u.failCount, NoText, "")

\* app.vault.getAbstractFileByPath(path) instanceof TFile
isFile(path) == path \in Range(files)

\* The items of the batch after position i that the loop body runs for.
Eligible(u, i) ==
    { j \in (i + 1)..Len(u.items) : u.mode = "all" \/ isFile(u.items[j]) }

CmdUploadAll ==
    /\ up.pc = "idle"
    /\ LET attachments == attachmentsOf(files, settings)
       IN  IF ~s3
           THEN /\ up' = [up EXCEPT !.pc = "done", !.mode = "all"]
                /\ events' = Append(events, Ev("noticeConfigure", NoText, 0, 0, NoText, ""))
           ELSE IF attachments = << >>
           THEN /\ up' = [up EXCEPT !.pc = "done", !.mode = "all"]
                /\ events' = Append(events, Ev("noticeNone", NoText, 0, 0, NoText, ""))
           ELSE /\ up' = [up EXCEPT !.pc = "next", !.mode = "all",
                                    !.items = attachments, !.idx = 0, !.target = 0]
                /\ events' = Append(events,
                       Ev("noticeStart", NoText, Len(attachments), 0, NoText, ""))
    /\ UNCHANGED << tab, settings, s3, now, files, docs, active, store, modal, faults >>

CmdUploadCurrent ==
    /\ up.pc = "idle"
    /\ IF ~s3
       THEN /\ up' = [up EXCEPT !.pc = "done", !.mode = "current"]
            /\ events' = Append(events, Ev("noticeConfigure", NoText, 0, 0, NoText, ""))
       ELSE IF active = 0
       THEN /\ up' = [up EXCEPT !.pc = "done", !.mode = "current"]
            /\ events' = Append(events, Ev("noticeNoActive", NoText, 0, 0, NoText, ""))
       ELSE /\ up' = [up EXCEPT !.pc = "activeRead", !.mode = "current",
                                !.target = active]
            /\ UNCHANGED events
    /\ UNCHANGED << tab, settings, s3, now, files, docs, active, store, modal, faults >>

\* await this.app.vault.read(activeFile) settles.
ActiveReadDone ==
    /\ up.pc = "activeRead"
    /\ \E ok \in Outcomes :
         /\ Charge(ok)
         /\ LET attachmentPaths == extractAttachmentPaths(docs[up.target], settings)
            IN  IF ~ok
                THEN /\ up' = [up EXCEPT !.pc = "crashed"]
                     /\ UNCHANGED events
                ELSE IF attachmentPaths = << >>
                THEN /\ up' = [up EXCEPT !.pc = "done"]
                     /\ events' = Append(events,
                            Ev("noticeNone", NoText, 0, 0, NoText, ""))
                ELSE /\ up' = [up EXCEPT !.pc = "next", !.items = attachmentPaths,
                                         !.idx = 0]
                     /\ events' = Append(events,
                            Ev("noticeStart", NoText, Len(attachmentPaths), 0, NoText, ""))
    /\ UNCHANGED << tab, settings, s3, now, files, docs, active, store, modal >>

\* The head of the batch loop: the next item is taken up, or the batch ends.
BatchStep ==
    /\ up.pc = "next"
    /\ LET rest == Eligible(up, up.idx)
           j == CHOOSE x \in rest : \A y \in rest : x <= y
           r == CallUpload([up EXCEPT !.idx = j], events, up.items[j])
       IN  IF rest = {}
           THEN /\ up' = [up EXCEPT !.pc = "done", !.idx = Len(up.items)]
                /\ events' = Append(events, batchEndNotice(up))
           ELSE /\ up' = r.u
                /\ events' = r.ev
    /\ UNCHANGED << tab, settings, s3, now, files, docs, active, store, modal, faults >>

\* replaceAttachmentReferences returned: vault.delete(attachment) is awaited.
FinishRewrite(u, ev) ==
    [ u |-> [u EXCEPT !.pc = "unlink"],
      ev |-> ev \o << Ev("rewritten", u.att, u.attempt, 0, u.url, ""),
                      Ev("unlink", u.att, u.attempt, 0, NoText, "") >> ]

\* The loop of replaceAttachmentReferences moves to its next document.
NextDoc(u, ev) ==
    IF u.di < Len(u.rdocs)
    THEN [u |-> [u EXCEPT !.pc = "docRead", !.di = @ + 1], ev |-> ev]
    ELSE FinishRewrite(u, ev)

\* The put succeeded: the URL is built and replaceAttachmentReferences called.
PutSucceeded(u, ev) ==
    LET u1 == [u EXCEPT !.url = computeUrl(u.key, settings),
                        !.rdocs = rewriteTargets(u.target), !.di = 0]
        ev1 == ev \o << Ev("putOk", u.att, u.attempt, 0, u.key, "") >>
    IN  NextDoc(u1, ev1)

\* Mutant of PutFailed: the error of the put is swallowed and the rewrite and
\* the local delete go ahead.
PutFailureSwallowed(u, ev) ==
    NextDoc([u EXCEPT !.url = computeUrl(u.key, settings),
                      !.rdocs = rewriteTargets(u.target), !.di = 0], ev)

\* The put failed.
PutFailed(u, ev) == AttemptFailed(u, ev, "putError")

\* vault.modify failed.
WriteFailed(u, ev) == AttemptFailed(u, ev, "writeError")

\* await this.app.vault.readBinary(attachment) settles; on success the key is
\* computed and the put is sent.
ReadBinaryDone ==
    /\ up.pc = "readBinary"
    /\ \E ok \in Outcomes :
         /\ isFile(up.att) \/ ~ok
         /\ Charge(ok)
         /\ LET key == computeKey(fileName(up.att), settings, now)
                retry == IF up.attempt > 1
                         THEN << Ev("noticeRetry", up.att, up.attempt, 0, NoText, "") >>
                         ELSE << >>
                r == AttemptFailed(up, events, "readError")
            IN  IF ok
                THEN /\ up' = [up EXCEPT !.pc = "put", !.key = key]
                     /\ events' = events \o retry
                                   \o << Ev("put", up.att, up.attempt, 0, key, "") >>
                ELSE /\ up' = r.u
                     /\ events' = r.ev
    /\ UNCHANGED << tab, settings, s3, now, files, docs, active, store, modal >>

\* await this.s3.send(PutObjectCommand) settles.
PutDone ==
    /\ up.pc = "put"
    /\ \E ok \in Outcomes :
         /\ Charge(ok)
         /\ LET r == IF ok THEN PutSucceeded(up, events) ELSE PutFailed(up, events)
            IN  /\ up' = r.u
                /\ events' = r.ev
         /\ store' = IF ok THEN store \union { up.key } ELSE store
    /\ UNCHANGED << tab, settings, s3, now, files, docs, active, modal >>

\* await this.app.vault.read(file) of replaceAttachmentReferences settles.
DocReadDone ==
    /\ up.pc = "docRead"
    /\ \E ok \in Outcomes :
         /\ Charge(ok)
         /\ LET d == up.rdocs[up.di]
                w == rewriteContent(docs[d], fileName(up.att), up.url)
                r == IF ~ok THEN AttemptFailed(up, events, "readError")
                     ELSE IF w.modified
                     THEN [u |-> [up EXCEPT !.pc = "docModify",
                                            !.newContent = w.content],
                           ev |-> events]
                     ELSE NextDoc(up, events)
            IN  /\ up' = r.u
                /\ events' = r.ev
    /\ UNCHANGED << tab, settings, s3, now, files, docs, active, store, modal >>

\* await this.app.vault.modify(file, newContent) settles.
DocModifyDone ==
    /\ up.pc = "docModify"
    /\ \E ok \in Outcomes :
         /\ Charge(ok)
         /\ LET d == up.rdocs[up.di]
                r == IF ok
                     THEN NextDoc(up, events \o << Ev("write", up.att, d, 0, NoText, "") >>)
                     ELSE WriteFailed(up, events)
            IN  /\ up' = r.u
                /\ events' = r.ev
                /\ docs' = IF ok THEN [docs EXCEPT ![d] = up.newContent] ELSE docs
    /\ UNCHANGED << tab, settings, s3, now, files, active, store, modal >>

\* await this.app.vault.delete(attachment) settles.
UnlinkDone ==
    /\ up.pc = "unlink"
    /\ \E ok \in Outcomes :
         /\ isFile(up.att) \/ ~ok
         /\ Charge(ok)
         /\ LET Other(path) == path # up.att
                r == IF ok
                     THEN Returned(up, events \o << Ev("unlinked", up.att, up.attempt, 0, NoText, "") >>)
                     ELSE AttemptFailed(up, events, "deleteError")
            IN  /\ up' = r.u
                /\ events' = r.ev
                /\ files' = IF ok THEN SelectSeq(files, Other) ELSE files
    /\ UNCHANGED << tab, settings, s3, now, docs, active, store, modal >>

\* The setTimeout of the retry loop fires: the next attempt begins.
BackoffDone ==
    /\ up.pc = "backoff"
    /\ now' = now + backoffDelay(up.attempt)
    /\ LET r == BeginAttempt(up,
                    events \o << Ev("waited", up.att, up.attempt,
                                    backoffDelay(up.attempt), NoText, "") >>,
                    up.attempt + 1)
       IN  /\ up' = r.u
           /\ events' = r.ev
    /\ UNCHANGED << tab, settings, s3, files, docs, active, store, modal, faults >>

\* No continuation token: the first page is asked for, or the last was given.
NoToken == << >>

\* The settings tab with no handler in progress: no test of the connection
\* awaiting its HeadBucket, no saveSettings awaiting saveData.
TabIdle == [head |-> FALSE, saves |-> 0, edits |-> 0]

\* The fields of a CleanupModal, as its constructor and field initialisers
\* leave them, and the position of its startCleanup.
NoResult == [processed |-> 0 - 1, deleted |-> 0, failed |-> 0, cancelled |-> FALSE]

ModalClosed ==
    [ open |-> FALSE, pc |-> "idle", runs |-> 0,
      isRunning |-> FALSE, shouldCancel |-> FALSE,
      startDisabled |-> FALSE, cancelDisabled |-> FALSE, cancelMode |-> "close",
      status |-> "none", red |-> FALSE,
      s3Files |-> << >>, token |-> NoToken, refs |-> {}, di |-> 0,
      unused |-> << >>, i |-> 0, processed |-> 0, deleted |-> 0, failed |-> 0,
      trashKey |-> << >>, result |-> NoResult, store0 |-> {} ]

(***************************************************************************)
(* The upload commands on a small vault                                    *)
(***************************************************************************)

\* Two attachments at the vault's root.
AttA == << "a", ".", "p" >>
AttG == << "g", ".", "p" >>

\* '![x](a.p) [[g.p]]'
DocBoth ==
    << "!", "[", "x", "]", "(" >> \o AttA \o << ")", " ", "[", "[" >> \o AttG
    \o << "]", "]" >>

\* '![[a.p]]'
DocEmbedA == << "!", "[", "[" >> \o AttA \o << "]", "]" >>

\* 'n'
DocPlain == << "n" >>

InitUpload ==
    /\ settings \in { Configured(ps, TRUE, bd, r) :
                        ps \in BOOLEAN, bd \in BOOLEAN, r \in 1..MaxRetry }
    /\ s3 = TRUE
    /\ now = 0
    /\ files \in { << AttA, AttG >>, << AttA >> }
    /\ docs \in { << DocBoth, DocEmbedA >>, << DocBoth, DocPlain >> }
    /\ active = 1
    /\ store = {}
    /\ up = UpIdle
    /\ modal = ModalClosed
    /\ tab = TabIdle
    /\ faults = 0
    /\ events = << >>

NextUpload ==
    \/ CmdUploadAll
    \/ CmdUploadCurrent
    \/ ActiveReadDone
    \/ BatchStep
    \/ ReadBinaryDone
    \/ PutDone
    \/ DocReadDone
    \/ DocModifyDone
    \/ UnlinkDone
    \/ BackoffDone

SpecUpload == InitUpload /\ [][NextUpload]_vars

(***************************************************************************)
(* Remote inventory scanner                                                *)
(***************************************************************************)

\* One ListObjectsV2 page of the bucket: at most PageSize keys with the prefix,
\* in key order, after the key the token stands for; next is the token of the
\* following page, NoToken when this page is the last.
listPage(bucket, prefix, token) ==
    CHOOSE r \in
      { [ keys |-> SubSeq(ks, 1, IF Len(ks) > PageSize THEN PageSize ELSE Len(ks)),
          next |-> IF Len(ks) > PageSize THEN ks[PageSize] ELSE NoToken ] :
          ks \in { SortKeys({ k \in bucket :
                      /\ startsWith(k, prefix)
                      /\ (token = NoToken \/ KeyLess(token, k)) }) } }
      : TRUE

\* Mutant of isTrashed: nothing is excluded from the inventory.
isTrashedNever(key, S) == FALSE

\* Mutant of isTrashed: only a trash folder at the top of the bucket is
\* looked for.
isTrashedAtTopOnly(key, S) == startsWith(key, S.trashPath \o Slash)

\* Whether getAllS3Files leaves a key out as being in the trash.
isTrashed(key, S) ==
    \/ startsWith(key, S.trashPath \o Slash)
    \/ includes(key, Slash \o S.trashPath \o Slash)

\* The keys of a page that getAllS3Files pushes.
keptKeys(keys, S) ==
    LET Kept(key) == key # << >> /\ ~isTrashed(key, S) IN SelectSeq(keys, Kept)

\* What getAllS3Files returns for a bucket that does not change meanwhile.
RECURSIVE scanFrom(_, _, _)
scanFrom(bucket, S, token) ==
    CHOOSE r \in
      { keptKeys(page.keys, S)
        \o (IF page.next = NoToken THEN << >> ELSE scanFrom(bucket, S, page.next)) :
          page \in { listPage(bucket, S.folderPath, token) } }
      : TRUE

getAllS3Files(bucket, S) == scanFrom(bucket, S, NoToken)

(***************************************************************************)
(* Reference collector                                                     *)
(***************************************************************************)

\* The four patterns of findAllObsidianReferences.
patterns(S) == << Pat("image"), Pat("link"), Pat("wiki"), PatRaw(S.baseUrl) >>

\* The key findAllObsidianReferences takes from one match, << >> when it adds
\* none.
keyOfMatch(url, S) ==
    IF ~includes(url, S.baseUrl) THEN << >>
    ELSE CHOOSE r \in
           { splitFirst(splitFirst(IF startsWith(k, Slash) THEN substring(k, 1) ELSE k,
                                   "?"), "#") :
               k \in { substring(url, indexOf(url, S.baseUrl) - 1 + Len(S.baseUrl)) } }
           : TRUE

\* The references one document adds.
referencesIn(content, S) ==
    { keyOfMatch(url, S) :
        url \in UNION { Range(Captures(patterns(S)[k], content)) : k \in 1..4 } }
    \ { << >> }

(***************************************************************************)
(* Reconciler                                                              *)
(***************************************************************************)

\* Mutant of variantsOf: the reference is added as collected, without any
\* variant.
variantsOfNone(ref, s3Files, S) == { ref }

\* The variants startCleanup adds for one reference.
variantsOf(ref, s3Files, S) ==
    { ref }
    \union (IF /\ S.usePathStyle /\ S.bucketName # << >>
               /\ startsWith(ref, S.bucketName \o Slash)
            THEN { substring(ref, Len(S.bucketName) + 1) } ELSE {})
    \union (IF S.folderPath # << >> /\ startsWith(ref, S.folderPath \o Slash)
            THEN { substring(ref, Len(S.folderPath) + 1) } ELSE {})
    \union { f \in Range(s3Files) : endsWith(ref, Slash \o f) \/ ref = f }

normalizedReferences(refs, s3Files, S) ==
    UNION { variantsOf(ref, s3Files, S) : ref \in refs }

unusedFiles(s3Files, refs, S) ==
    CHOOSE r \in
      { LET Unused(file) == /\ file \notin norm
                            /\ (S.folderPath \o Slash \o file) \notin norm
        IN  SelectSeq(s3Files, Unused) :
          norm \in { normalizedReferences(refs, s3Files, S) } }
      : TRUE

\* The key moveS3FileToTrash copies to.
trashKeyOf(key, S, t) ==
    LET fileNameOfKey == IF splitLast(key, "/") = << >> THEN key
                         ELSE splitLast(key, "/")
    IN  S.trashPath \o Slash \o fileNameOfKey \o << "_" >> \o toString(t)

(***************************************************************************)
(* CleanupModal                                                            *)
(*                                                                         *)
(* modal.pc is the await at which startCleanup is suspended: "listing"     *)
(* (s3.send of a ListObjectsV2Command in getAllS3Files), "scanning"        *)
(* (vault.read in findAllObsidianReferences), "confirm" (the promise the   *)
(* confirm and cancel buttons settle), "copy" and "delete" (s3.send of the *)
(* CopyObjectCommand and of the DeleteObjectCommand); "idle" when no run   *)
(* is suspended.                                                           *)
(***************************************************************************)

\* Whether an awaited call of the cleanup settles or rejects.
Settles == IF faults < MaxCleanupFaults THEN { TRUE, FALSE } ELSE { TRUE }

\* onOpen
onOpen(m) == [m EXCEPT !.open = TRUE, !.status = "ready"]

resetButtons(m) ==
    [m EXCEPT !.isRunning = FALSE, !.startDisabled = FALSE,
              !.cancelDisabled = FALSE, !.cancelMode = "close"]

\* The catch block of startCleanup and the resetButtons after it.
runFailed(m, ev, message) ==
    [ m |-> resetButtons([m EXCEPT !.pc = "idle", !.status = "error", !.red = TRUE]),
      ev |-> ev \o << Ev("error", NoText, 0, 0, NoText, message) >> ]

\* A return inside the try block, which skips the resetButtons after it.
runReturned(m, ev) ==
    [ m |-> [m EXCEPT !.pc = "idle"], ev |-> ev \o << Ev("returned", NoText, 0, 0, NoText, "") >> ]

\* showResults and the resetButtons after the try block.
showResults(m, ev) ==
    LET result == [ processed |-> m.processed, deleted |-> m.deleted,
                    failed |-> m.failed, cancelled |-> m.shouldCancel ]
    IN  [ m |-> resetButtons([m EXCEPT !.pc = "idle", !.result = result,
                    !.status = IF m.shouldCancel THEN "cancelled" ELSE "completed"]),
          ev |-> ev \o << Ev("results", NoText, m.processed, m.deleted, NoText,
                            IF m.shouldCancel THEN "cancelled" ELSE "completed") >> ]

\* Mutant of copyFailed: the original is deleted although the copy failed.
copyFailureIgnored(m, ev) ==
    [ m |-> [m EXCEPT !.pc = "delete"],
      ev |-> ev \o << Ev("delete", m.unused[m.i], m.i, 0, NoText, "") >> ]

\* Mutant of loopHead: the stop flag is not looked at.
loopHeadNoCancel(m) == m.i <= Len(m.unused)

\* The head of the execution loop: whether the body runs for unused[m.i].
loopHead(m) == m.i <= Len(m.unused) /\ ~m.shouldCancel

\* The execution loop at unused[m.i]: the object's first request is sent, or
\* the loop is left and the results are shown.
processNext(m, ev) ==
    IF ~loopHead(m) THEN showResults(m, ev)
    ELSE IF settings.moveToTrash
    THEN CHOOSE r \in
           { [ m |-> [m EXCEPT !.pc = "copy", !.status = "processing", !.trashKey = tk],
               ev |-> ev \o << Ev("copy", m.unused[m.i], m.i, 0, tk, "") >> ] :
               tk \in { trashKeyOf(m.unused[m.i], settings, now) } }
           : TRUE
    ELSE [ m |-> [m EXCEPT !.pc = "delete", !.status = "processing"],
           ev |-> ev \o << Ev("delete", m.unused[m.i], m.i, 0, NoText, "") >> ]

\* Mutant of tally: a failed object is counted as failed and as deleted.
tallyFailureTwice(m, ev, success) ==
    processNext([m EXCEPT !.deleted = @ + 1,
                          !.failed = IF success THEN @ ELSE @ + 1,
                          !.processed = @ + 1, !.i = @ + 1], ev)

\* The tally of one object and the next iteration.
tally(m, ev, success) ==
    processNext([m EXCEPT !.deleted = IF success THEN @ + 1 ELSE @,
                          !.failed = IF success THEN @ ELSE @ + 1,
                          !.processed = @ + 1, !.i = @ + 1], ev)

\* Mutant of copyFailed: the failure leaves the loop and ends the run.
copyFailureAborts(m, ev) == runFailed(m, ev, "copyError")

\* moveS3FileToTrash: the copy failed, its catch returns false.
copyFailed(m, ev) == tally(m, ev, FALSE)

\* Mutant of afterDiff: the run goes on to the deletion without the prompt.
afterDiffNoPrompt(m, ev) ==
    IF m.unused = << >>
    THEN [ m |-> resetButtons([m EXCEPT !.pc = "idle", !.status = "noUnusedFiles"]),
           ev |-> ev \o << Ev("nothing", NoText, 0, 0, NoText, "") >> ]
    ELSE processNext([m EXCEPT !.i = 1], ev)

\* After the unused list is computed: nothing to do, or the prompt.
afterDiff(m, ev) ==
    IF m.unused = << >>
    THEN [ m |-> resetButtons([m EXCEPT !.pc = "idle", !.status = "noUnusedFiles"]),
           ev |-> ev \o << Ev("nothing", NoText, 0, 0, NoText, "") >> ]
    ELSE [ m |-> [m EXCEPT !.pc = "confirm", !.status = "foundUnusedFiles"],
           ev |-> ev \o << Ev("prompt", NoText, Len(m.unused), 0, NoText, "") >> ]

\* findAllObsidianReferences returned: the cancel check, the normalisation,
\* the difference.
afterScan(m, ev) ==
    IF m.shouldCancel THEN runReturned(m, ev)
    ELSE CHOOSE r \in
           { afterDiff([m EXCEPT !.unused = un], ev) :
               un \in { unusedFiles(m.s3Files, m.refs, settings) } }
           : TRUE

\* getAllS3Files returned: the cancel check, then findAllObsidianReferences,
\* which awaits the read of the first document if there is one.
afterListing(m, ev) ==
    IF m.shouldCancel THEN runReturned(m, ev)
    ELSE IF getMarkdownFiles = << >>
    THEN afterScan([m EXCEPT !.status = "scanningObsidian", !.refs = {}], ev)
    ELSE [ m |-> [m EXCEPT !.pc = "scanning", !.status = "scanningObsidian",
                           !.refs = {}, !.di = 1],
           ev |-> ev ]

\* Mutant of listFailed: the error is swallowed and the pages listed so far
\* are returned.
listFailureSwallowed(m, ev) == afterListing(m, ev)

\* getAllS3Files: a list request failed; its catch rethrows, and the catch of
\* startCleanup shows the error.
listFailed(m, ev) == runFailed(m, ev, "listError")

\* The command: the modal is opened.
CmdCleanup ==
    /\ modal = ModalClosed
    /\ ~Noticed("cleanup")
    /\ IF ~s3
       THEN /\ events' = Append(events,
                   Ev("noticeConfigure", NoText, 0, 0, NoText, "cleanup"))
            /\ UNCHANGED modal
       ELSE /\ modal' = onOpen(ModalClosed)
            /\ UNCHANGED events
    /\ UNCHANGED << tab, settings, s3, now, files, docs, active, store, up, faults >>

\* The start button: startCleanup up to the first list request.
ClickStart ==
    /\ modal.open
    /\ ~modal.startDisabled
    /\ modal.runs < MaxRuns
    /\ modal' = [modal EXCEPT
            !.pc = "listing", !.runs = @ + 1,
            !.isRunning = TRUE, !.shouldCancel = FALSE, !.startDisabled = TRUE,
            !.cancelMode = "stop", !.status = "gettingS3Files",
            !.s3Files = << >>, !.token = NoToken, !.refs = {}, !.di = 0,
            !.unused = << >>, !.i = 0, !.processed = 0, !.deleted = 0, !.failed = 0,
            !.trashKey = << >>, !.result = NoResult, !.store0 = store]
    /\ events' = << Ev("start", NoText, modal.runs + 1, 0, NoText, "") >>
    /\ UNCHANGED << tab, settings, s3, now, files, docs, active, store, up, faults >>

\* The cancel button while a run is on: the stop flag is raised.
ClickStop ==
    /\ modal.open
    /\ modal.cancelMode = "stop"
    /\ ~modal.cancelDisabled
    /\ modal' = [modal EXCEPT !.shouldCancel = TRUE, !.cancelDisabled = TRUE,
                              !.status = "stopping"]
    /\ events' = Append(events, Ev("stop", NoText, modal.processed, 0, NoText, modal.pc))
    /\ UNCHANGED << tab, settings, s3, now, files, docs, active, store, up, faults >>

\* The modal is closed (its close control, Escape, or the cancel button when
\* no run is on): onClose raises the stop flag.
CloseModal ==
    /\ modal.open
    /\ modal' = [modal EXCEPT !.open = FALSE, !.shouldCancel = TRUE]
    /\ events' = Append(events, Ev("close", NoText, modal.processed, 0, NoText, modal.pc))
    /\ UNCHANGED << tab, settings, s3, now, files, docs, active, store, up, faults >>

\* await this.s3.send(ListObjectsV2Command) settles.
ListDone ==
    /\ modal.pc = "listing"
    /\ \E ok \in Settles :
         /\ Charge(ok)
         /\ LET page == listPage(store, settings.folderPath, modal.token)
                m1 == [modal EXCEPT !.s3Files = @ \o keptKeys(page.keys, settings),
                                    !.token = page.next]
                r == IF ~ok
                     THEN listFailed(modal,
                            events \o << Ev("listFail", NoText, 0, 0, NoText, "") >>)
                     ELSE IF page.next # NoToken THEN [m |-> m1, ev |-> events]
                     ELSE afterListing(m1, events)
            IN  /\ modal' = r.m
                /\ events' = r.ev
    /\ UNCHANGED << tab, settings, s3, now, files, docs, active, store, up >>

\* await this.app.vault.read(file) of findAllObsidianReferences settles.
ScanDone ==
    /\ modal.pc = "scanning"
    /\ \E ok \in Settles :
         /\ Charge(ok)
         /\ LET m1 == [modal EXCEPT
                         !.refs = @ \union referencesIn(docs[modal.di], settings)]
                r == IF ~ok
                     THEN runFailed(modal,
                            events \o << Ev("readFail", NoText, modal.di, 0, NoText, "") >>,
                            "readError")
                     ELSE IF modal.di < Len(docs)
                     THEN [m |-> [m1 EXCEPT !.di = @ + 1], ev |-> events]
                     ELSE afterScan(m1, events)
            IN  /\ modal' = r.m
                /\ events' = r.ev
    /\ UNCHANGED << tab, settings, s3, now, files, docs, active, store, up >>

\* The confirm button of the prompt.
ClickConfirm ==
    /\ modal.open
    /\ modal.pc = "confirm"
    /\ LET r == processNext([modal EXCEPT !.i = 1],
                    events \o << Ev("confirm", NoText, 0, 0, NoText, "") >>)
       IN  /\ modal' = r.m
           /\ events' = r.ev
    /\ UNCHANGED << tab, settings, s3, now, files, docs, active, store, up, faults >>

\* The cancel button of the prompt: resetButtons, and the promise rejects.
ClickCancelPrompt ==
    /\ modal.open
    /\ modal.pc = "confirm"
    /\ LET r == runFailed(resetButtons(modal),
                    events \o << Ev("cancelPrompt", NoText, 0, 0, NoText, "") >>,
                    "userCancelled")
       IN  /\ modal' = r.m
           /\ events' = r.ev
    /\ UNCHANGED << tab, settings, s3, now, files, docs, active, store, up, faults >>

\* await this.s3.send(copyCommand) of moveS3FileToTrash settles; on success
\* the delete of the original is sent.
CopyDone ==
    /\ modal.pc = "copy"
    /\ \E ok \in Settles, dt \in { 0, MaxLatency } :
         /\ modal.unused[modal.i] \in store \/ ~ok
         /\ Charge(ok)
         /\ now' = now + dt
         /\ LET key == modal.unused[modal.i]
                r == IF ok
                     THEN [ m |-> [modal EXCEPT !.pc = "delete"],
                            ev |-> events
                              \o << Ev("copyOk", key, modal.i, 0, modal.trashKey, ""),
                                    Ev("delete", key, modal.i, 0, NoText, "") >> ]
                     ELSE copyFailed(modal,
                            events \o << Ev("copyFail", key, modal.i, 0, NoText, "") >>)
            IN  /\ modal' = r.m
                /\ events' = r.ev
                /\ store' = IF ok THEN store \union { modal.trashKey } ELSE store
    /\ UNCHANGED << tab, settings, s3, files, docs, active, up >>

\* await this.s3.send(DeleteObjectCommand) settles, in moveS3FileToTrash or
\* in deleteS3File.
DeleteDone ==
    /\ modal.pc = "delete"
    /\ \E ok \in Settles :
         /\ Charge(ok)
         /\ LET key == modal.unused[modal.i]
                r == tally(modal,
                       events \o << Ev(IF ok THEN "deleteOk" ELSE "deleteFail",
                                       key, modal.i, 0, modal.trashKey, "") >>, ok)
            IN  /\ modal' = r.m
                /\ events' = r.ev
                /\ store' = IF ok THEN store \ { key } ELSE store
    /\ UNCHANGED << tab, settings, s3, now, files, docs, active, up >>

(***************************************************************************)
(* The cleanup command on a small bucket                                   *)
(***************************************************************************)

\* 'a(1).p': a name the sanitiser leaves as it is.
AttP == << "a", "(", "1", ")", ".", "p" >>

\* 'f/.t': a trash folder inside the upload folder.
TrashInside == Folder \o Slash \o TrashPath

\* '![x](url)': the link the uploader writes for a cloud URL.
linkOf(url) == << "!", "[", "x", "]", "(" >> \o url \o << ")" >>

\* The link the uploader wrote for a file name under settings S.
linkTo(name, S) == linkOf(computeUrl(computeKey(name, S, 0), S))

\* The settings of a cleanup: the addressing style, the deletion mode, and
\* where the upload folder and the trash folder are.
CleanupSettings ==
    { [ Configured(ps, trash, FALSE, 1) EXCEPT !.trashPath = tp ] :
        ps \in BOOLEAN, trash \in BOOLEAN, tp \in { TrashPath, TrashInside } }

\* What the bucket holds and which of it the documents cite.
CleanupCases ==
    { [ held |-> { AttA, AttP, AttG }, cited |-> << AttA, AttP >> ],
      [ held |-> { AttA, AttP, AttG }, cited |-> << >> ],
      [ held |-> { AttA, AttG },       cited |-> << AttA, AttG >> ] }

\* A document citing the cloud URLs of the given names, one link after another.
RECURSIVE citing(_, _)
citing(names, S) ==
    IF names = << >> THEN DocPlain
    ELSE linkTo(Head(names), S) \o << " " >> \o citing(Tail(names), S)

\* The bucket after the uploads of the held names and one earlier move of
\* 'a.p' to the trash; the events are those of the run that is on.
InitCleanup ==
    /\ settings \in CleanupSettings
    /\ s3 = TRUE
    /\ now = 0
    /\ files = << >>
    /\ active = 0
    /\ \E c \in CleanupCases :
         /\ docs = << DocPlain, citing(c.cited, settings) >>
         /\ store = { computeKey(n, settings, 0) : n \in c.held }
                    \union { trashKeyOf(computeKey(AttA, settings, 0), settings, 0) }
    /\ up = UpIdle
    /\ modal = ModalClosed
    /\ tab = TabIdle
    /\ faults = 0
    /\ events = << >>

NextCleanup ==
    \/ CmdCleanup
    \/ ClickStart
    \/ ClickStop
    \/ CloseModal
    \/ ListDone
    \/ ScanDone
    \/ ClickConfirm
    \/ ClickCancelPrompt
    \/ CopyDone
    \/ DeleteDone

SpecCleanup == InitCleanup /\ [][NextCleanup]_vars

\* The cleanup with its progress: every awaited request and read settles, and
\* the operator answers a prompt that is shown.
SpecCleanupLive ==
    /\ SpecCleanup
    /\ WF_vars(ListDone) /\ WF_vars(ScanDone) /\ WF_vars(CopyDone) /\ WF_vars(DeleteDone)
    /\ WF_vars(ClickConfirm \/ ClickCancelPrompt)

(***************************************************************************)
(* Reading the events                                                      *)
(***************************************************************************)

\* The last event of kind e before position i, or 0.
LastBefore(e, i) ==
    LET js == { j \in 1..(i - 1) : events[j].e = e }
    IN  IF js = {} THEN 0 ELSE CHOOSE j \in js : \A k \in js : j >= k

\* The first event of kind e after position i, or Len(events) + 1.
FirstAfter(e, i) ==
    LET js == { j \in (i + 1)..Len(events) : events[j].e = e }
    IN  IF js = {} THEN Len(events) + 1 ELSE CHOOSE j \in js : \A k \in js : j <= k

\* The events of kind e at positions lo..hi.
Between(e, lo, hi) == { j \in lo..hi : j >= 1 /\ j <= Len(events) /\ events[j].e = e }

\* The events of the attempt, and of the call of uploadAndReplaceAttachment,
\* that event i belongs to: from its start to i.
AttemptStart(i) == LastBefore("attempt", i)
CallStart(i) == LastBefore("call", i)
CallEnd(i) == FirstAfter("call", i) - 1

\* Whether a text holds an inline or double-bracket reference whose target is
\* the local file of that name (a target that is a URL is not one).
RefersTo(text, name) ==
    \E c \in Range(Captures(Pat("image"), text)) \union Range(Captures(Pat("wiki"), text)) :
        ~startsWith(c, Http) /\ fileName(c) = name

(***************************************************************************)
(* Claims about the upload orchestrator                                    *)
(***************************************************************************)

\* C2: a local delete (vault.delete of the attachment) is issued only after,
\* in the same attempt, the put succeeded and replaceAttachmentReferences
\* returned; an attempt in which the put or a document write failed issued no
\* local delete.
C2_DeleteOnlyAfterPutAndRewrite ==
    /\ \A i \in Happened("unlink") :
         \E j \in Between("putOk", AttemptStart(i), i) :
            Between("rewritten", j, i) # {}
    /\ \A i \in Happened("attemptFailed") :
         events[i].err \in { "putError", "writeError" }
            => Between("unlink", AttemptStart(i), i) = {}

\* C2 witness: a local delete issued in a second attempt, the first having
\* failed at the put.
C2_Witness ==
    \E i \in Happened("unlink") :
        /\ events[i].n = 2
        /\ \E j \in Between("attemptFailed", CallStart(i), i) :
              events[j].err = "putError"

\* C3, as claimed: once uploadAndReplaceAttachment has returned for an
\* attachment, no document of the vault refers to its local file.
C3_NoDanglingReference ==
    \A i \in Happened("return") :
        \A d \in 1..Len(docs) : ~RefersTo(docs[d], fileName(events[i].a))

\* C5, as claimed: in both batch callers, once an attachment has exhausted its
\* retries, every later attachment of the batch is still attempted and the
\* batch ends with its success/failure tally.
C5_BatchIsolatesFailures ==
    (up.pc \in { "done", "crashed" } /\ Happened("throw") # {})
        => /\ \A j \in 1..Len(up.items) :
                 (up.mode = "all" \/ isFile(up.items[j]))
                    => \E i \in Happened("call") : events[i].a = up.items[j]
           /\ events[Len(events)].e \in { "noticeSuccess", "noticePartial" }

C7_ExhaustedRetries ==
    \A i \in Happened("throw") :
        LET c == CallStart(i)
            fs == Between("attemptFailed", c, i)
            last == CHOOSE j \in fs : \A k \in fs : j >= k
        IN  /\ Cardinality(Between("attempt", c, i)) = settings.retryCount
            /\ Cardinality(fs) = settings.retryCount
            /\ { events[j].n : j \in Between("attempt", c, i) } = 1..settings.retryCount
            /\ events[i - 1].e = "noticeFailed"
            /\ events[i - 1].a = events[i].a
            /\ events[i - 1].n = settings.retryCount
            /\ events[i - 1].err = events[last].err
            /\ events[i].err = events[last].err
            /\ Between("unlinked", c, i) = {}
            /\ (Between("unlinked", i, Len(events)) = {} => isFile(events[i].a))

\* C7 witness: a call that failed twice, the last time at a document write.
C7_Witness ==
    \E i \in Happened("throw") :
        /\ events[i].n = 2
        /\ events[i].err = "writeError"

(***************************************************************************)
(* The settings tab, and the plugin as a whole                             *)
(*                                                                         *)
(* tab.saves counts the saveSettings calls suspended at saveData, tab.head *)
(* says whether testS3Connection is suspended at its HeadBucketCommand.    *)
(***************************************************************************)

\* initializeS3: a client is built when both credentials are set; otherwise
\* this.s3 is left as it was.
initializeS3(S, client) ==
    IF S.accessKeyId # << >> /\ S.secretAccessKey # << >> THEN TRUE ELSE client

\* The text fields whose emptiness decides whether the remote store can be
\* used.
Credentials == { "accessKeyId", "secretAccessKey", "bucketName" }

\* onChange of one of these fields: the setting is assigned and saveSettings
\* called, which awaits saveData.
EditCredential ==
    /\ tab.edits < MaxEdits
    /\ \E f \in Credentials, v \in { << >>, << "k" >> } :
         /\ settings[f] # v
         /\ settings' = [settings EXCEPT ![f] = v]
    /\ tab' = [tab EXCEPT !.edits = @ + 1, !.saves = @ + 1]
    /\ UNCHANGED << s3, now, files, docs, active, store, up, modal, faults, events >>

\* await this.saveData settles: saveSettings goes on to initializeS3.
SaveDone ==
    /\ tab.saves > 0
    /\ s3' = initializeS3(settings, s3)
    /\ tab' = [tab EXCEPT !.saves = @ - 1]
    /\ UNCHANGED << settings, now, files, docs, active, store, up, modal, faults, events >>

\* The test button: testS3Connection up to its HeadBucketCommand.
CmdTestConnection ==
    /\ ~tab.head
    /\ ~Noticed("test")
    /\ Happened("head") = {}
    /\ IF ~s3
       THEN /\ events' = Append(events, Ev("noticeConfigure", NoText, 0, 0, NoText, "test"))
            /\ UNCHANGED tab
       ELSE /\ events' = Append(events, Ev("head", settings.bucketName, 0, 0, NoText, ""))
            /\ tab' = [tab EXCEPT !.head = TRUE]
    /\ UNCHANGED << settings, s3, now, files, docs, active, store, up, modal, faults >>

\* await this.s3.send(HeadBucketCommand) settles.
TestDone ==
    /\ tab.head
    /\ \E ok \in Settles :
         /\ Charge(ok)
         /\ events' = Append(events,
                Ev(IF ok THEN "noticeConnected" ELSE "noticeConnectionFailed",
                   NoText, 0, 0, NoText, IF ok THEN "" ELSE "headError"))
    /\ tab' = [tab EXCEPT !.head = FALSE]
    /\ UNCHANGED << settings, s3, now, files, docs, active, store, up, modal >>

\* The settings the plugin is loaded with: complete, without a bucket name,
\* without an access key.
LoadedSettings ==
    { Configured(FALSE, TRUE, FALSE, MaxRetry),
      [Configured(FALSE, TRUE, FALSE, MaxRetry) EXCEPT !.bucketName = << >>],
      [Configured(FALSE, TRUE, FALSE, MaxRetry) EXCEPT !.accessKeyId = << >>] }

\* onload: initializeS3 on the loaded settings, with no client yet; a vault
\* with 'a.p' and the document '![[a.p]]', a bucket with the object of 'g.p'.
InitPlugin ==
    /\ settings \in LoadedSettings
    /\ s3 = initializeS3(settings, FALSE)
    /\ now = 0
    /\ files = << AttA >>
    /\ docs = << DocEmbedA >>
    /\ active = 1
    /\ store = { computeKey(AttG, settings, 0) }
    /\ up = UpIdle
    /\ modal = ModalClosed
    /\ tab = TabIdle
    /\ faults = 0
    /\ events = << >>

\* The commands and the settings tab, each command from its trigger to its
\* first request to the remote store: the put and the list stay in flight.
NextPlugin ==
    \/ EditCredential
    \/ SaveDone
    \/ CmdTestConnection
    \/ TestDone
    \/ CmdUploadAll
    \/ CmdUploadCurrent
    \/ ActiveReadDone
    \/ BatchStep
    \/ ReadBinaryDone
    \/ CmdCleanup
    \/ ClickStart

SpecPlugin == InitPlugin /\ [][NextPlugin]_vars

(***************************************************************************)
(* The key, the URL and the reference recovered from the URL               *)
(***************************************************************************)

\* The inputs: file names that are plain, with one blank, with a run of
\* blanks, with a leading blank, with '#', with '?'; the upload folder 'f',
\* none, or 'f d'; both addressing styles, with and without the date path.
InitKeys ==
    /\ settings \in
         { [ Configured(ps, TRUE, bd, 1) EXCEPT !.folderPath = fp ] :
             ps \in BOOLEAN, bd \in BOOLEAN,
             fp \in { Folder, << >>, << "f", " ", "d" >> } }
    /\ s3 = TRUE
    /\ now \in { 0, 1000 }
    /\ files \in { << n >> : n \in
                     { AttA,
                       << "a", " ", "b", ".", "p" >>,
                       << "a", " ", " ", "b", ".", "p" >>,
                       << " ", "a", ".", "p" >>,
                       << "a", "#", "1", ".", "p" >>,
                       << "a", "?", ".", "p" >> } }
    /\ docs = << >>
    /\ active = 0
    /\ store = {}
    /\ up = UpIdle
    /\ modal = ModalClosed
    /\ tab = TabIdle
    /\ faults = 0
    /\ events = << >>

\* The key and the cloud URL uploadAndReplaceAttachment builds for the file.
BuildKey ==
    /\ up.pc = "idle"
    /\ LET key == computeKey(fileName(files[1]), settings, now)
       IN  up' = [up EXCEPT !.pc = "built", !.att = files[1], !.key = key,
                            !.url = computeUrl(key, settings)]
    /\ UNCHANGED << tab, settings, s3, now, files, docs, active, store, modal, faults, events >>

\* What findAllObsidianReferences makes of that URL.
CollectUrl ==
    /\ up.pc = "built"
    /\ up' = [up EXCEPT !.pc = "collected"]
    /\ modal' = [modal EXCEPT !.refs = { keyOfMatch(up.url, settings) } \ { << >> }]
    /\ UNCHANGED << tab, settings, s3, now, files, docs, active, store, faults, events >>

NextKeys == BuildKey \/ CollectUrl

SpecKeys == InitKeys /\ [][NextKeys]_vars

(***************************************************************************)
(* The link extractor and the rewriter on small documents                  *)
(***************************************************************************)

\* The cloud URL of 'a.p': 'http://s/f/a.p'.
UrlA == computeUrl(computeKey(AttA, Configured(FALSE, TRUE, FALSE, 1), 0),
                   Configured(FALSE, TRUE, FALSE, 1))

\* The pieces documents are made of: '![x](d/a.p)', '[[a.p]]', '![[a.p]]',
\* '[x](c.p)', '![x](http://s/f/a.p)', '[[d/n]]', '[[http://s/a.p]]', '[[p]]',
\* '[[g.P]]'.
Pieces ==
    { << "!", "[", "x", "]", "(", "d", "/" >> \o AttA \o << ")" >>,
      << "[", "[" >> \o AttA \o << "]", "]" >>,
      DocEmbedA,
      << "[", "x", "]", "(", "c", ".", "p", ")" >>,
      linkOf(UrlA),
      << "[", "[", "d", "/", "n", "]", "]" >>,
      << "[", "[" >> \o BaseUrl \o Slash \o AttA \o << "]", "]" >>,
      << "[", "[", "p", "]", "]" >>,
      << "[", "[", "g", ".", "P", "]", "]" >> }

\* A vault with the attachment 'a.p' and one document of at most two pieces.
InitText ==
    /\ settings = Configured(FALSE, TRUE, FALSE, 1)
    /\ s3 = TRUE
    /\ now = 0
    /\ files = << AttA >>
    /\ docs \in { << a \o b >> : a \in Pieces \union { << >> }, b \in Pieces \union { << >> } }
    /\ active = 1
    /\ store = {}
    /\ up = UpIdle
    /\ modal = ModalClosed
    /\ tab = TabIdle
    /\ faults = 0
    /\ events = << >>

\* extractAttachmentPaths on the document.
ExtractPaths ==
    /\ up.pc = "idle"
    /\ up' = [up EXCEPT !.pc = "extracted",
                        !.items = extractAttachmentPaths(docs[active], settings)]
    /\ UNCHANGED << tab, settings, s3, now, files, docs, active, store, modal, faults, events >>

\* The body of the loop of replaceAttachmentReferences on the document, for
\* the attachment 'a.p' and its cloud URL: newContent, and the write when it
\* was modified.
RewriteDoc ==
    /\ up.pc = "idle"
    /\ LET w == rewriteContent(docs[active], fileName(files[1]), UrlA)
       IN  /\ up' = [up EXCEPT !.pc = "rewritten", !.att = files[1], !.url = UrlA,
                               !.newContent = w.content]
           /\ events' = IF w.modified
                        THEN Append(events, Ev("write", files[1], active, 0, NoText, ""))
                        ELSE events
    /\ UNCHANGED << tab, settings, s3, now, files, docs, active, store, modal, faults >>

\* replaceAttachmentReferences called once more with the same attachment and
\* URL, on the document as the first call left it: newContent of the second
\* call, and its write when it was modified (m counts the earlier calls).
RewriteAgain ==
    /\ up.pc = "rewritten"
    /\ LET w == rewriteContent(up.newContent, fileName(up.att), up.url)
       IN  /\ docs' = [docs EXCEPT ![active] = up.newContent]
           /\ up' = [up EXCEPT !.pc = "rewrittenAgain", !.newContent = w.content]
           /\ events' = IF w.modified
                        THEN Append(events, Ev("write", up.att, active, 1, NoText, ""))
                        ELSE events
    /\ UNCHANGED << tab, settings, s3, now, files, active, store, modal, faults >>

NextText == ExtractPaths \/ RewriteDoc \/ RewriteAgain

SpecText == InitText /\ [][NextText]_vars

(***************************************************************************)
(* The listing of a bucket of several pages                                *)
(***************************************************************************)

\* Keys a bucket may hold: '.t/g.p', 'f/.t/a.p', 'f/a.p', 'f/g.p', 'fa.p'
\* and 'x.p'.
BucketKeys ==
    { TrashPath \o Slash \o AttG, Folder \o Slash \o TrashPath \o Slash \o AttA,
      Folder \o Slash \o AttA, Folder \o Slash \o AttG, Folder \o AttA,
      << "x", ".", "p" >> }

\* A vault without documents and a bucket holding any of the keys; the upload
\* folder is 'f' or empty, the trash folder '.t' or 'f/.t'.
InitListing ==
    /\ settings \in { [ Configured(FALSE, TRUE, FALSE, 1)
                          EXCEPT !.folderPath = fp, !.trashPath = tp ] :
                        fp \in { Folder, << >> }, tp \in { TrashPath, TrashInside } }
    /\ s3 = TRUE
    /\ now = 0
    /\ files = << >>
    /\ docs = << >>
    /\ active = 0
    /\ store \in SUBSET BucketKeys
    /\ up = UpIdle
    /\ modal = ModalClosed
    /\ tab = TabIdle
    /\ faults = 0
    /\ events = << >>

NextListing == CmdCleanup \/ ClickStart \/ ListDone

SpecListing == InitListing /\ [][NextListing]_vars

(***************************************************************************)
(* The retry count: loaded, edited in the settings tab, used by an upload  *)
(***************************************************************************)

\* parseInt(text): leading blanks are skipped, then a sign may stand, then the
\* decimal digits up to the first other character are read; NaN when there is
\* no digit.
RECURSIVE DigitsValue(_, _, _)
DigitsValue(s, i, acc) ==
    IF i > Len(s) \/ s[i] \notin Range(Digit) THEN acc
    ELSE DigitsValue(s, i + 1,
            10 * acc + (CHOOSE d \in 0..9 : Digit[d + 1] = s[i]))

RECURSIVE parseIntFrom(_, _)
parseIntFrom(s, i) ==
    IF i > Len(s) THEN [nan |-> TRUE, val |-> 0]
    ELSE IF IsSpace(s[i]) THEN parseIntFrom(s, i + 1)
    ELSE LET signed == s[i] \in { "-", "+" }
             j == IF signed THEN i + 1 ELSE i
         IN  IF j > Len(s) \/ s[j] \notin Range(Digit)
             THEN [nan |-> TRUE, val |-> 0]
             ELSE [nan |-> FALSE,
                   val |-> IF s[i] = "-" THEN 0 - DigitsValue(s, j, 0)
                           ELSE DigitsValue(s, j, 0)]

parseInt(s) == parseIntFrom(s, 1)

\* What the onChange handler of the retry-count field assigns for a text:
\* Math.max(1, Math.min(10, parseInt(value) || 3)).
retryCountOf(value) ==
    LET p == parseInt(value)
        retryCount == IF p.nan \/ p.val = 0 THEN 3 ELSE p.val
        least == IF retryCount < 10 THEN retryCount ELSE 10
    IN  IF least > 1 THEN least ELSE 1

\* loadSettings: the persisted data over the defaults, field by field; data
\* is what data.json holds for retryCount, if it holds it.
loadSettings(data) ==
    IF data.has
    THEN [ Configured(FALSE, TRUE, FALSE, DEFAULT_SETTINGS.retryCount)
             EXCEPT !.retryCount = data.retryCount ]
    ELSE Configured(FALSE, TRUE, FALSE, DEFAULT_SETTINGS.retryCount)

\* onChange of the retry-count field for the texts '', 'x', '0', '-5', '50',
\* '7', '2.7', ' 4', '5x', '1': the setting is assigned and saveSettings
\* called.
EditRetryCount ==
    /\ tab.edits < MaxEdits
    /\ \E value \in { << >>, << "x" >>, << "0" >>, << "-", "5" >>, << "5", "0" >>,
                      << "7" >>, << "2", ".", "7" >>, << " ", "4" >>, << "5", "x" >>,
                      << "1" >> } :
         settings' = [settings EXCEPT !.retryCount = retryCountOf(value)]
    /\ tab' = [tab EXCEPT !.edits = @ + 1, !.saves = @ + 1]
    /\ UNCHANGED << s3, now, files, docs, active, store, up, modal, faults, events >>

\* onload with a data.json that holds no retryCount, one the settings tab
\* wrote (1, 10) or one written by hand (0, 11); a vault with 'a.p' and the
\* document '![[a.p]]'.
InitSettings ==
    /\ settings \in { loadSettings(data) :
                        data \in { [has |-> FALSE, retryCount |-> 0] }
                           \union { [has |-> TRUE, retryCount |-> n] : n \in { 0, 1, 10, 11 } } }
    /\ s3 = initializeS3(settings, FALSE)
    /\ now = 0
    /\ files = << AttA >>
    /\ docs = << DocEmbedA >>
    /\ active = 1
    /\ store = {}
    /\ up = UpIdle
    /\ modal = ModalClosed
    /\ tab = TabIdle
    /\ faults = 0
    /\ events = << >>

\* The settings tab and the upload command up to its put, which stays in
\* flight; the attempts that fail before it fail at readBinary.
NextSettings ==
    \/ EditRetryCount
    \/ SaveDone
    \/ CmdUploadAll
    \/ BatchStep
    \/ ReadBinaryDone
    \/ BackoffDone

SpecSettings == InitSettings /\ [][NextSettings]_vars

(***************************************************************************)
(* An upload command and a cleanup run of the same plugin at once          *)
(***************************************************************************)

\* A vault with 'a.p' and the document '![[a.p]]', a bucket with the object
\* of 'g.p', which no document cites; nothing keeps the upload command and
\* the cleanup modal from running together.
InitBoth ==
    /\ settings \in { Configured(FALSE, trash, FALSE, 1) : trash \in BOOLEAN }
    /\ s3 = TRUE
    /\ now = 0
    /\ files = << AttA >>
    /\ docs = << DocEmbedA >>
    /\ active = 1
    /\ store = { computeKey(AttG, settings, 0) }
    /\ up = UpIdle
    /\ modal = ModalClosed
    /\ tab = TabIdle
    /\ faults = 0
    /\ events = << >>

\* The awaits of the two commands settle in any order.
NextBoth ==
    \/ CmdUploadAll
    \/ BatchStep
    \/ ReadBinaryDone
    \/ PutDone
    \/ DocReadDone
    \/ DocModifyDone
    \/ UnlinkDone
    \/ CmdCleanup
    \/ ClickStart
    \/ ListDone
    \/ ScanDone
    \/ ClickConfirm
    \/ CopyDone
    \/ DeleteDone

SpecBoth == InitBoth /\ [][NextBoth]_vars

(***************************************************************************)
(* The upload commands on attachments whose names meet                     *)
(***************************************************************************)

\* 'x/a.p' and 'y/a.p': one base name in two folders; 'a b.p' and 'a-b.p':
\* names that differ in a blank against a hyphen.
MeetingFiles ==
    { << << "x", "/" >> \o AttA, << "y", "/" >> \o AttA >>,
      << << "a", " ", "b", ".", "p" >>, << "a", "-", "b", ".", "p" >> >> }

\* A vault with two such attachments and one document that cites the first
\* as an image and the second in double brackets.
InitMeeting ==
    /\ settings \in { Configured(FALSE, TRUE, FALSE, r) : r \in 1..MaxRetry }
    /\ s3 = TRUE
    /\ now = 0
    /\ files \in MeetingFiles
    /\ docs = << linkOf(files[1]) \o << " ", "[", "[" >> \o files[2] \o << "]", "]" >> >>
    /\ active = 1
    /\ store = {}
    /\ up = UpIdle
    /\ modal = ModalClosed
    /\ tab = TabIdle
    /\ faults = 0
    /\ events = << >>

SpecMeeting == InitMeeting /\ [][NextUpload]_vars

(***************************************************************************)
(* The cleanup command on a bucket with objects beside the upload folder   *)
(***************************************************************************)

\* The upload folder is 'f'.  The bucket holds 'f/a.p', which the document
\* cites, 'f/g.p', which nothing cites, and an object that was not uploaded
\* into the folder: 'fa.p', or 'fx/g.p' in the sibling folder 'fx'.
InitSweep ==
    /\ settings \in { Configured(FALSE, trash, FALSE, 1) : trash \in BOOLEAN }
    /\ s3 = TRUE
    /\ now = 0
    /\ files = << >>
    /\ docs = << citing(<< AttA >>, settings) >>
    /\ active = 0
    /\ store \in { { Folder \o Slash \o AttA, Folder \o Slash \o AttG, other } :
                     other \in { Folder \o AttA, Folder \o << "x" >> \o Slash \o AttG } }
    /\ up = UpIdle
    /\ modal = ModalClosed
    /\ tab = TabIdle
    /\ faults = 0
    /\ events = << >>

SpecSweep == InitSweep /\ [][NextCleanup]_vars

(***************************************************************************)
(* The rewriter on documents that cite other targets                       *)
(***************************************************************************)

\* 'ba.p', another attachment, whose name holds 'a.p'.
AttBA == << "b" >> \o AttA

\* Links whose target is not the attachment 'a.p': '![x](ba.p)', '[[ba.p]]',
\* '![x](g.p)', '[x](ba.p)', and '![x](http://o/a.p)', an image at another
\* site; and '![[a.p]]', which is a reference to it.
OtherPieces ==
    { linkOf(AttBA), << "[", "[" >> \o AttBA \o << "]", "]" >>, linkOf(AttG),
      << "[", "x", "]", "(" >> \o AttBA \o << ")" >>,
      linkOf(<< "h", "t", "t", "p", ":", "/", "/", "o", "/" >> \o AttA) }

\* A vault with the attachment 'a.p' and one document of at most two of these
\* pieces.
InitFrame ==
    /\ settings = Configured(FALSE, TRUE, FALSE, 1)
    /\ s3 = TRUE
    /\ now = 0
    /\ files = << AttA >>
    /\ docs \in { << a \o b >> : a \in OtherPieces \union { DocEmbedA, << >> },
                                  b \in OtherPieces \union { DocEmbedA, << >> } }
    /\ active = 1
    /\ store = {}
    /\ up = UpIdle
    /\ modal = ModalClosed
    /\ tab = TabIdle
    /\ faults = 0
    /\ events = << >>

SpecFrame == InitFrame /\ [][NextText]_vars

(***************************************************************************)
(* Reading the events of a cleanup run                                     *)
(***************************************************************************)

\* The copy-object and delete-object requests sent so far in the run.
Requests == Happened("copy") \union Happened("delete")

\* The requests sent for the key.
RequestsFor(key) == { i \in Requests : events[i].a = key }

\* The settled requests of the object at position j of the unused list.
SettledFor(j) ==
    { i \in 1..Len(events) :
        /\ events[i].e \in { "copyOk", "copyFail", "deleteOk", "deleteFail" }
        /\ events[i].n = j }

\* The times the stop flag was raised (the stop button, or the modal closed).
Signals == Happened("stop") \union Happened("close")

\* The last component of a key, as moveS3FileToTrash takes it.
basenameOf(key) == IF splitLast(key, "/") = << >> THEN key ELSE splitLast(key, "/")

\* '](url)' of the key's cloud URL under the current settings.
targetOf(key) == << "]", "(" >> \o computeUrl(key, settings) \o << ")" >>

\* C1, as claimed: every key of the inventory whose cloud URL under the
\* current settings is, verbatim, the target of a link in a document is not in
\* the unused list, and no copy-object or delete-object request is sent for it.
C1_ReferencedKeyNeverUnused ==
    \A key \in Range(modal.s3Files) :
       (\E d \in 1..Len(docs) : includes(docs[d], targetOf(key)))
       => /\ key \notin Range(modal.unused)
          /\ RequestsFor(key) = {}

\* C4: in a cleanup run a copy-object or delete-object request is sent only
\* after the operator confirmed the list shown in that run; a run in which the
\* operator cancelled at the prompt, or whose unused list was empty, has ended
\* and, like every run without a confirmation, left the remote store as it
\* was when the run started.
C4_NoRequestBeforeConfirm ==
    Happened("start") # {} =>
       /\ \A i \in Requests :
             /\ LastBefore("confirm", i) # 0
             /\ LastBefore("prompt", LastBefore("confirm", i)) # 0
       /\ Happened("confirm") = {} => store = modal.store0
       /\ Happened("cancelPrompt") \union Happened("nothing") # {}
             => /\ Happened("confirm") = {}
                /\ Requests = {}
                /\ modal.pc = "idle"
                /\ store = modal.store0

\* C4 witness: a request sent after the operator confirmed a list of two.
C4_Witness ==
    /\ Len(modal.unused) >= 2
    /\ Happened("confirm") # {}
    /\ Happened("deleteOk") # {}
    /\ store # modal.store0

C9_DeleteOnlyAfterCopy ==
    settings.moveToTrash =>
       /\ \A i \in Happened("delete") :
             /\ i > 1
             /\ events[i - 1].e = "copyOk"
             /\ events[i - 1].a = events[i].a
             /\ events[i - 1].x \in store
             /\ \E c \in Happened("copy") :
                   /\ c < i
                   /\ events[c].a = events[i].a
                   /\ events[c].x = events[i - 1].x
       /\ \A i \in Happened("copyFail") :
             /\ Happened("delete") \cap RequestsFor(events[i].a) = {}
             /\ events[i].a \in store
       /\ modal.failed = Cardinality(Happened("copyFail") \union Happened("deleteFail"))
       /\ modal.deleted = Cardinality(Happened("deleteOk"))

\* C9 witness: one object's copy failed and another object was moved.
C9_Witness ==
    /\ settings.moveToTrash
    /\ Happened("copyFail") # {}
    /\ Happened("deleteOk") # {}
    /\ modal.failed = 1

\* The object an earlier run moved to the trash.
EarlierTrashKey == trashKeyOf(computeKey(AttA, settings, 0), settings, 0)

\* C10: after moveS3FileToTrash(K) returned true, a scan of the store does
\* not return K; the store holds the trash object, whose key starts with
\* trashPath + '/' and contains K's last component; a scan returns neither
\* that trash object nor the one of an earlier run, and neither is in the
\* inventory or the unused list of the run.
C10_TrashedKeyLeavesInventory ==
    settings.moveToTrash =>
       /\ EarlierTrashKey \notin Range(modal.s3Files) \union Range(modal.unused)
       /\ \A i \in Happened("deleteOk") :
             LET K == events[i].a
                 T == events[i].x
                 scan == Range(getAllS3Files(store, settings))
             IN  /\ K \notin scan
                 /\ T \in store
                 /\ startsWith(T, settings.trashPath \o Slash)
                 /\ includes(T, basenameOf(K))
                 /\ T \notin scan
                 /\ EarlierTrashKey \notin scan
                 /\ T \notin Range(modal.s3Files) \union Range(modal.unused)

\* C10 witness: an object moved to a trash folder that lies under the prefix
\* the scan lists.
C10_Witness ==
    /\ settings.moveToTrash
    /\ settings.trashPath = TrashInside
    /\ \E i \in Happened("deleteOk") :
          /\ events[i].x \in store
          /\ events[i].a \notin store

\* C11: when a list request of the inventory scan or a document read of the
\* reference collection fails, the run is over with the error shown: no
\* unused list was computed, nothing was shown for confirmation, no
\* copy-object or delete-object request was sent and the store is as it was.
C11_ScanFailureAborts ==
    \A i \in Happened("listFail") \union Happened("readFail") :
       /\ i < Len(events)
       /\ events[i + 1].e = "error"
       /\ events[i + 1].err = IF events[i].e = "listFail" THEN "listError" ELSE "readError"
       /\ \A j \in (i + 2)..Len(events) : events[j].e = "close"
       /\ modal.pc = "idle"
       /\ modal.status = "error"
       /\ modal.red
       /\ modal.unused = << >>
       /\ Happened("prompt") \union Happened("confirm") \union Requests = {}
       /\ store = modal.store0

\* C11 witness: the second list page failed after the first was received.
C11_Witness ==
    /\ modal.s3Files # << >>
    /\ Happened("listFail") # {}

\* Whether a credential or the bucket name is empty.
Incomplete == \E f \in Credentials : settings[f] = << >>

\* The requests to the remote store that are in flight.
InFlight ==
    (IF up.pc = "put" THEN 1 ELSE 0)
    + (IF modal.pc \in { "listing", "copy", "delete" } THEN 1 ELSE 0)
    + (IF tab.head THEN 1 ELSE 0)

\* C12, as claimed: whenever accessKeyId, secretAccessKey or bucketName is
\* empty, each of upload-all, upload-current-document, cleanup and
\* test-connection answers with the notice to configure S3 and starts
\* nothing: no upload, no modal, no request.
C12_UnconfiguredDisablesCommands ==
    [][ (Incomplete /\ (CmdUploadAll \/ CmdUploadCurrent \/ CmdCleanup \/ CmdTestConnection))
        => /\ events' = Append(events, events'[Len(events')])
           /\ events'[Len(events')].e = "noticeConfigure"
           /\ up'.pc \in { up.pc, "done" }
           /\ modal' = modal
           /\ tab' = tab
           /\ InFlight' = InFlight ]_vars

\* C20, as claimed: at most one request to the remote store is in flight.
C20_OneRequestInFlight == InFlight <= 1

\* C13, as claimed: a run that the operator cancelled (the cancel button of
\* the prompt, or the stop button during the scan or the execution) and in
\* which no list request or document read failed has ended in the cancelled
\* report, and no error was reported.
C13_CancelReportedAsCancelled ==
    ( /\ Happened("start") # {}
      /\ modal.pc = "idle"
      /\ Happened("cancelPrompt") \union Happened("stop") # {}
      /\ Happened("listFail") \union Happened("readFail") = {} )
    => /\ modal.status = "cancelled"
       /\ Happened("error") = {}

\* C14, as claimed: what the Reference Collector recovers from the URL the
\* uploader built from a key is exactly that key.
C14_UrlRoundTrip ==
    up.pc = "collected" => modal.refs = { up.key }

\* C15, as claimed: the key built for a file name with whitespace holds no
\* whitespace, and replacing whitespace by hyphens in the sanitised name
\* again changes nothing.
C15_KeyWithoutWhitespace ==
    (up.pc = "built" /\ \E i \in 1..Len(up.att) : IsSpace(up.att[i]))
    => /\ \A i \in 1..Len(up.key) : ~IsSpace(up.key[i])
       /\ sanitizeFileName(splitLast(up.key, "/")) = splitLast(up.key, "/")
       /\ sanitizeFileName(sanitizeFileName(up.att)) = sanitizeFileName(up.att)

(***************************************************************************)
(* Reading documents                                                       *)
(***************************************************************************)

\* How many times the piece occurs in the text, counted from the left
\* without overlap.
RECURSIVE CountFrom(_, _, _)
CountFrom(piece, text, i) ==
    IF i + Len(piece) - 1 > Len(text) THEN 0
    ELSE IF StartsWithAt(text, piece, i)
         THEN 1 + CountFrom(piece, text, i + Len(piece))
         ELSE CountFrom(piece, text, i + 1)

Count(piece, text) == CountFrom(piece, text, 1)

\* '![x](d/a.p)', '![x](U)', '![](U)', '[[a.p]]' and '[[http://s/a.p]]'.
InlineLocalA == << "!", "[", "x", "]", "(", "d", "/" >> \o AttA \o << ")" >>
InlineCloudA == linkOf(UrlA)
EmbedCloudA == << "!", "[", "]", "(" >> \o UrlA \o << ")" >>
WikiA == << "[", "[" >> \o AttA \o << "]", "]" >>
WikiHttpA == << "[", "[" >> \o BaseUrl \o Slash \o AttA \o << "]", "]" >>

\* C16: the document written back for 'a.p' holds no 'd/a.p' any more, and
\* holds '![x](U)', alt text kept, once for every '![x](d/a.p)' of the
\* document (and for every '![x](U)' it already held).
C16_InlineRewritten ==
    up.pc = "rewritten" =>
       /\ ~includes(up.newContent, << "d", "/" >> \o AttA)
       /\ Count(InlineCloudA, up.newContent)
            = Count(InlineLocalA, docs[active]) + Count(InlineCloudA, docs[active])
       /\ Count(InlineLocalA, docs[active]) > 0 => Happened("write") # {}

\* C16 witness: a document with '![x](d/a.p)' twice, rewritten.
C16_Witness ==
    /\ up.pc = "rewritten"
    /\ Count(InlineLocalA, docs[active]) = 2
    /\ Count(InlineCloudA, up.newContent) = 2

\* C17: the rewrite for 'a.p' turns each double-bracket reference to it,
\* '[[a.p]]' as well as '![[a.p]]', into exactly '![](U)' and leaves the rest
\* of the document's double-bracket text as it was: no '!![' and no '[[a.p]]'
\* is left.
C17_WikiRewritten ==
    up.pc = "rewritten" =>
       LET L == EmbedCloudA
           inline == replaceLit(docs[active], InlineLocalA, InlineCloudA)
           expected == replaceLit(replaceLit(replaceLit(inline, DocEmbedA, L), WikiA, L),
                                  WikiHttpA, L)
       IN  /\ up.newContent = expected
           /\ ~includes(up.newContent, << "!", "!", "[" >>)
           /\ ~includes(up.newContent, WikiA)

\* C17 witness: a document with '![[a.p]]' and '[[a.p]]', rewritten.
C17_Witness ==
    /\ up.pc = "rewritten"
    /\ docs[active] = DocEmbedA \o WikiA
    /\ up.newContent = EmbedCloudA \o EmbedCloudA

\* C18, as claimed: the targets returned hold the target of the inline link
\* '[x](c.p)' and of the inline image '![x](d/a.p)' when the document holds
\* them, and none of them starts with 'http'.
C18_InlineTargets ==
    up.pc = "extracted" =>
       /\ includes(docs[active], InlineLocalA) => (<< "d", "/" >> \o AttA) \in Range(up.items)
       /\ includes(docs[active], << "[", "x", "]", "(", "c", ".", "p", ")" >>)
             => << "c", ".", "p" >> \in Range(up.items)
       /\ \A k \in 1..Len(up.items) : ~startsWith(up.items[k], Http)

\* C19, as claimed: a double-bracket target of the document is returned
\* exactly when it has a file extension that, in lower case, is an allowed
\* one; '[[d/n]]' is not returned.
C19_WikiTargetsByExtension ==
    up.pc = "extracted" =>
       /\ \A t \in { AttA, << "d", "/", "n" >>, << "p" >>, << "g", ".", "P" >>,
                     BaseUrl \o Slash \o AttA } :
             includes(docs[active], << "[", "[" >> \o t \o << "]", "]" >>)
             => ( t \in Range(up.items)
                  <=> /\ includes(t, << "." >>)
                      /\ toLowerCase(splitLast(t, ".")) \in allowedExts(settings) )
       /\ << "d", "/", "n" >> \notin Range(up.items)

(***************************************************************************)
(* Claims about the phases of a cleanup run                                *)
(***************************************************************************)

\* The state of the run's state machine the modal is in.  "NothingToDo" is
\* the end of a run whose unused list was empty, "Stopped" the end of a run
\* that returned at a cancel check of the scan.
Phase ==
    IF modal.pc \in { "listing", "scanning" } THEN "Scanning"
    ELSE IF modal.pc = "confirm" THEN "AwaitingConfirmation"
    ELSE IF modal.pc \in { "copy", "delete" } THEN "Executing"
    ELSE IF modal.status = "error" THEN "Errored"
    ELSE IF modal.status = "completed" THEN "Completed"
    ELSE IF modal.status = "cancelled" THEN "Cancelled"
    ELSE IF modal.status = "noUnusedFiles" THEN "NothingToDo"
    ELSE IF Happened("returned") # {} THEN "Stopped"
    ELSE "Ready"

Ended == { "Completed", "Cancelled", "Errored", "NothingToDo", "Stopped" }

\* The steps of the state machine; a run that is confirmed after the stop
\* flag was raised passes through the execution without a request.
PhaseSteps ==
    { << "Ready", "Scanning" >>,
      << "Scanning", "AwaitingConfirmation" >>, << "Scanning", "Errored" >>,
      << "Scanning", "NothingToDo" >>, << "Scanning", "Stopped" >>,
      << "AwaitingConfirmation", "Executing" >>, << "AwaitingConfirmation", "Cancelled" >>,
      << "Executing", "Completed" >>, << "Executing", "Cancelled" >>,
      << "Executing", "Errored" >> }
    \union { << p, "Scanning" >> : p \in Ended }

\* C21, as claimed: every step of a cleanup run is a step of Ready ->
\* Scanning -> AwaitingConfirmation -> Executing -> {Completed, Cancelled,
\* Errored} (the next run starts again at Scanning), and the run becomes
\* Errored only from Scanning or Executing and only when a request to the
\* remote store or a read of a document has just failed.
C21_CleanupStateMachine ==
    [][ Phase' # Phase =>
          /\ << Phase, Phase' >> \in PhaseSteps
          /\ Phase' = "Errored" =>
                \E i \in 1..Len(events') :
                   /\ events'[i].e \in { "listFail", "readFail", "copyFail", "deleteFail" }
                   /\ i + 1 = Len(events')
                   /\ events'[i + 1].e = "error" ]_vars

\* The copy-object and delete-object requests of the run that failed.
Failures == Happened("copyFail") \union Happened("deleteFail")

\* C22: in the execution of a cleanup run the failed count is the number of
\* objects whose copy or delete failed and the deleted count the number of
\* objects whose delete succeeded; a failure reports no error, and what
\* follows it is the first request of the next unused object, or the results
\* when the object was the last one or the stop flag was raised before.
C22_FailureTalliedLoopContinues ==
    /\ modal.failed = Cardinality(Failures)
    /\ modal.deleted = Cardinality(Happened("deleteOk"))
    /\ modal.processed = modal.failed + modal.deleted
    /\ \A i \in Failures :
          /\ Happened("error") = {}
          /\ i < Len(events)
          /\ \/ /\ events[i + 1].e \in { "copy", "delete" }
                /\ events[i + 1].n = events[i].n + 1
                /\ events[i + 1].a = modal.unused[events[i].n + 1]
             \/ /\ events[i + 1].e = "results"
                /\ \/ events[i].n = Len(modal.unused)
                   \/ \E j \in Signals : j < i

\* C22 witness: the copy of the first unused object failed, the others were
\* moved to the trash, and the results count one failure.
C22_Witness ==
    /\ modal.status = "completed"
    /\ \E i \in Happened("copyFail") : events[i].n = 1
    /\ modal.failed = 1
    /\ modal.deleted = Len(modal.unused) - 1
    /\ modal.deleted >= 1

(***************************************************************************)
(* Claims about the inventory and the unused list                          *)
(***************************************************************************)

\* The keys of the bucket that the list requests return (those with the
\* prefix folderPath) and that are not in a trash folder, up to the key the
\* token stands for, in key order.
ExpectedInventory(token) ==
    SortKeys({ k \in modal.store0 :
        /\ startsWith(k, settings.folderPath)
        /\ ~startsWith(k, settings.trashPath \o Slash)
        /\ ~includes(k, Slash \o settings.trashPath \o Slash)
        /\ (token = NoToken \/ k = token \/ KeyLess(k, token)) })

\* C23: while getAllS3Files is listing, the next request carries the token of
\* the page before (none for the first) and the keys collected are those of
\* the pages so far; when the listing has ended without a failure, the
\* inventory is exactly the keys of all pages, in page order, without those
\* in a trash folder, none dropped and none twice.
C23_InventoryIsAllPages ==
    /\ modal.pc = "listing" =>
          /\ modal.token = NoToken => modal.s3Files = << >>
          /\ modal.token # NoToken =>
                /\ modal.token \in modal.store0
                /\ modal.s3Files = ExpectedInventory(modal.token)
    /\ Happened("prompt") \union Happened("nothing") # {} =>
          /\ modal.s3Files = ExpectedInventory(NoToken)
          /\ Cardinality(Range(modal.s3Files)) = Len(modal.s3Files)

\* C23 witness: an inventory of more than one page from a bucket that also
\* holds a key in a trash folder inside the upload folder.
C23_Witness ==
    /\ Happened("prompt") # {}
    /\ Len(modal.s3Files) > PageSize
    /\ (Folder \o Slash \o TrashPath \o Slash \o AttA) \in modal.store0
    /\ settings.trashPath = TrashPath

\* The reference with the prefix and its '/' removed, when it starts with them.
Stripped(ref, prefix) ==
    IF prefix # << >> /\ startsWith(ref, prefix \o Slash)
    THEN { SubSeq(ref, Len(prefix) + 2, Len(ref)) } ELSE {}

\* The normalized reference set of the run: every collected reference, the
\* reference without a leading bucketName/ (path-style only), the reference
\* without a leading folderPath/, and every inventory key that the reference
\* is or ends with after a '/'.
NormalizedSet ==
    modal.refs
    \union UNION { IF settings.usePathStyle THEN Stripped(ref, settings.bucketName) ELSE {}
                   : ref \in modal.refs }
    \union UNION { Stripped(ref, settings.folderPath) : ref \in modal.refs }
    \union { k \in Range(modal.s3Files) :
               \E ref \in modal.refs : ref = k \/ endsWith(ref, Slash \o k) }

\* C24: once the unused list of a run is computed, it is the inventory, in
\* its order, without the keys K for which K or folderPath + '/' + K is in the
\* normalized reference set; that set holds every collected reference, and no
\* key in it is in the unused list.
C24_UnusedIsInventoryMinusNormalized ==
    Happened("prompt") \union Happened("nothing") # {} =>
       /\ modal.unused =
             SelectSeq(modal.s3Files,
                LAMBDA k : /\ k \notin NormalizedSet
                           /\ (settings.folderPath \o Slash \o k) \notin NormalizedSet)
       /\ modal.refs \subseteq NormalizedSet
       /\ Range(modal.unused) \cap NormalizedSet = {}

\* C24 witness: a path-style run whose documents cite some of the inventory;
\* the cited keys are kept out of the unused list by their variants only.
C24_Witness ==
    /\ Happened("prompt") # {}
    /\ settings.usePathStyle
    /\ modal.refs # {}
    /\ modal.refs \cap Range(modal.s3Files) = {}
    /\ Len(modal.unused) < Len(modal.s3Files)

(***************************************************************************)
(* Claims about the retry loop                                             *)
(***************************************************************************)

\* The sum of the waits recorded at the positions.
RECURSIVE TotalWait(_)
TotalWait(js) ==
    IF js = {} THEN 0
    ELSE LET j == CHOOSE x \in js : TRUE IN events[j].m + TotalWait(js \ { j })

\* 1 + 2 + ... + n
RECURSIVE Triangle(_)
Triangle(n) == IF n <= 0 THEN 0 ELSE n + Triangle(n - 1)

Segment(used, text) == IF used THEN text \o Slash ELSE << >>

C27_WriteOnlyWhenReplaced ==
    up.pc = "rewritten" =>
       LET doc == docs[active]
           name == fileName(up.att)
           matched == \/ Matches(PatName("mdName", name), doc) # << >>
                      \/ Matches(PatName("wikiName", name), doc) # << >>
       IN  /\ Cardinality(Happened("write")) = (IF matched THEN 1 ELSE 0)
           /\ ~includes(doc, name) => Happened("write") = {}
           /\ Happened("write") = {} => up.newContent = doc
           /\ up.newContent # doc => Happened("write") # {}

\* C27 witness: '[x](c.p)[[d/n]]' went through the rewrite for 'a.p' and was
\* not written.
C27_Witness ==
    /\ up.pc = "rewritten"
    /\ docs[active] = << "[", "x", "]", "(", "c", ".", "p", ")",
                         "[", "[", "d", "/", "n", "]", "]" >>
    /\ Happened("write") = {}

\* C28, as claimed: the targets returned for a document made of two pieces
\* are the targets returned for the first piece followed by those returned
\* for the second, whatever the syntax of either piece and also when both
\* hold the same target; nothing but the result is changed.
C28_TargetsInTextOrder ==
    up.pc = "extracted" =>
       /\ \A a \in Pieces \union { << >> }, b \in Pieces \union { << >> } :
             docs[active] = a \o b
             => up.items = extractAttachmentPaths(a, settings)
                           \o extractAttachmentPaths(b, settings)
       /\ events = << >> /\ store = {} /\ files = << AttA >>

(***************************************************************************)
(* Claims about the retry count                                            *)
(***************************************************************************)

\* C29, as claimed: settings.retryCount is an integer in 1..10 in every
\* state, after loadSettings and after every edit of the field, and every
\* call of uploadAndReplaceAttachment makes at least one attempt and no
\* attempt beyond the tenth.
C29_RetryCountInRange ==
    /\ settings.retryCount \in 1..10
    /\ \A i \in Happened("call") : i < Len(events) /\ events[i + 1].e = "attempt"
    /\ \A i \in Happened("attempt") : events[i].n \in 1..10

(***************************************************************************)
(* Claims about an upload and a cleanup running together                   *)
(***************************************************************************)

\* The upload has put its object and has yet to rewrite a document, or a
\* document cites the object's cloud URL.
PutAndLive ==
    /\ up.key # << >>
    /\ \/ up.pc \in { "docRead", "docModify" }
       \/ /\ up.url # << >>
          /\ \E d \in 1..Len(docs) : includes(docs[d], up.url)

\* C30, as claimed: while the object an upload has put is yet to be
\* referenced by the rewrite, or is cited by a document, the object is in the
\* remote store, it is not in the unused list of a cleanup run, and no
\* copy-object or delete-object request of the run is in flight for it.
C30_UploadedObjectSurvivesCleanup ==
    PutAndLive =>
       /\ up.key \in store
       /\ up.key \notin Range(modal.unused)
       /\ ~(modal.pc \in { "copy", "delete" } /\ modal.unused[modal.i] = up.key)

(***************************************************************************)
(* Claims about the keys of a batch                                        *)
(***************************************************************************)

\* C31, as claimed: the put-object requests of a batch for two different
\* local attachments carry different keys, so no put is sent for a key that
\* an earlier put of the batch created for another attachment.
C31_DistinctAttachmentsDistinctKeys ==
    \A i \in Happened("put"), j \in Happened("put") :
        events[i].a # events[j].a => events[i].x # events[j].x

(***************************************************************************)
(* Claims about the reach of the cleanup                                   *)
(***************************************************************************)

\* C32, as claimed: with a non-empty folderPath, every key a copy-object or
\* delete-object request of the cleanup is sent for starts with
\* folderPath + '/', and every object of the bucket whose key does not is
\* still there.
C32_CleanupStaysInFolder ==
    settings.folderPath # << >> =>
       /\ \A i \in Requests : startsWith(events[i].a, settings.folderPath \o Slash)
       /\ \A k \in modal.store0 :
             ~startsWith(k, settings.folderPath \o Slash) => k \in store

(***************************************************************************)
(* Claims about what the rewriter leaves alone                             *)
(***************************************************************************)

\* C33, as claimed: the text the rewrite for 'a.p' makes of a document holds
\* every link to another attachment, 'ba.p' among them, and every link to a
\* remote http URL as the document did: the text differs from the document
\* only where '![[a.p]]' stood.
C33_OtherLinksUnchanged ==
    up.pc = "rewritten" =>
       up.newContent = replaceLit(docs[active], DocEmbedA, EmbedCloudA)

(***************************************************************************)
(* Claims about the end of a cleanup run                                   *)
(***************************************************************************)

\* The modal as resetButtons leaves it, with no run suspended.
ReadyAgain ==
    /\ modal.pc = "idle"
    /\ ~modal.isRunning
    /\ ~modal.startDisabled
    /\ ~modal.cancelDisabled
    /\ modal.cancelMode = "close"

\* C34, as claimed: a cleanup run that was started leads to the modal being
\* in its ready state again, with no run suspended, isRunning false, the
\* start button and the cancel button enabled and the cancel button bound to
\* close.
C34_RunEndsReady == (modal.pc = "listing") ~> ReadyAgain

(***************************************************************************)
(* Claims about the puts of one call                                       *)
(***************************************************************************)

\* C35, as claimed: the put-object requests of one call of
\* uploadAndReplaceAttachment all carry the same key, none of them is sent
\* after a put of the call has succeeded.
C35_OneKeyOnePutPerCall ==
    \A i \in Happened("put"), j \in Happened("put") :
        CallStart(i) = CallStart(j) =>
           /\ events[i].x = events[j].x
           /\ i < j => Between("putOk", i, j) = {}

(***************************************************************************)
(* Claims about the counts of a cleanup run                                *)
(***************************************************************************)

\* The events that end the handling of the object at position j of the
\* unused list: its delete succeeded, or its copy or its delete failed.
OutcomesOf(j) ==
    { i \in Happened("deleteOk") \union Failures : events[i].n = j }

\* C36: at every point of a cleanup run processed = deleted + failed and
\* processed is at most the number of unused objects; each of the first
\* `processed' objects of the list has exactly one outcome and is counted in
\* exactly one of the two counters, no later object has one, and the results
\* shown carry these counts.
C36_EachObjectCountedOnce ==
    /\ modal.processed = modal.deleted + modal.failed
    /\ modal.processed <= Len(modal.unused)
    /\ modal.deleted = Cardinality({ j \in 1..Len(modal.unused) :
                                       \E i \in OutcomesOf(j) : events[i].e = "deleteOk" })
    /\ modal.failed = Cardinality({ j \in 1..Len(modal.unused) :
                                      \E i \in OutcomesOf(j) : i \in Failures })
    /\ \A j \in 1..Len(modal.unused) :
          Cardinality(OutcomesOf(j)) = IF j <= modal.processed THEN 1 ELSE 0
    /\ \A r \in Happened("results") :
          /\ events[r].n = modal.processed
          /\ events[r].m = modal.deleted
          /\ modal.result.processed = modal.result.deleted + modal.result.failed
          /\ modal.result.processed = modal.processed
          /\ modal.result.processed <= Len(modal.unused)

\* C36 witness: a run over two unused objects or more is through, the delete
\* of one object failed, another object was deleted, and every object of the
\* list is in the results.
C36_Witness ==
    /\ Happened("results") # {}
    /\ Happened("deleteFail") # {}
    /\ modal.result.deleted >= 1
    /\ modal.result.failed >= 1
    /\ modal.result.processed = Len(modal.unused)

\* C37, as claimed: the results of a cleanup run are reported as cancelled
\* only when an object of the unused list was left unprocessed.
C37_CancelledMeansUnprocessed ==
    \A r \in Happened("results") :
        events[r].err = "cancelled" => events[r].n < Len(modal.unused)

(***************************************************************************)
(* Claims about the counts of uploadCurrentFileAttachments                 *)
(***************************************************************************)

\* C38, as claimed: when uploadCurrentFileAttachments is through with the
\* references it extracted from the active document, successCount +
\* failCount is the number of these references, and the notice that ends the
\* batch carries the two counts.
C38_EveryReferenceCounted ==
    (up.mode = "current" /\ up.pc = "done" /\ Happened("noticeStart") # {}) =>
       /\ up.successCount + up.failCount = Len(up.items)
       /\ \A i \in Happened("noticeSuccess") \union Happened("noticePartial") :
             events[i].n + events[i].m = Len(up.items)

(***************************************************************************)
(* Claims about a second call of replaceAttachmentReferences               *)
(***************************************************************************)

\* C39, as claimed: a second call of replaceAttachmentReferences with the
\* same attachment and URL leaves the document with the text the first call
\* gave it, and writes no document.
C39_RewriteIdempotent ==
    up.pc = "rewrittenAgain" =>
       /\ up.newContent = docs[active]
       /\ \A i \in Happened("write") : events[i].m = 0

====
